---- MODULE Spec2Model ----
(***************************************************************************)
(* Plugin execution engine of wikilite (internal/plugin): the Manager with *)
(* its worker pool, job queue and result cache, the pipeline and action    *)
(* runners installed in every QuickJS VM, and the plugin loader.           *)
(*                                                                         *)
(* Strings are sequences of tokens.  ":" is a token of its own, every      *)
(* other token is a piece of text without ":"; a string of the program is  *)
(* the concatenation of its tokens, so strings.Contains on the program's   *)
(* keys is sub-sequence search on the tokens.                              *)
(***************************************************************************)
EXTENDS Integers, Sequences, FiniteSets, TLC

VARIABLES
    Plugins,      \* Manager.Plugins: loaded plugins, in pipeline order
    pluginIDs,    \* Manager.pluginIDs
    cache,        \* Manager.cache: key -> entry
    jobQueue,     \* Manager.jobQueue (buffered channel)
    respChan,     \* the reply channel of each caller's current job
    worker,       \* each worker goroutine: position in workerLoop, VM, job
    caller,       \* each calling goroutine: position in its call, arguments, return
    callCount,    \* number of calls started so far
    returnedOK,   \* history: <<key, value>> a call returned cleanly since the key was last removed
    stopChan,     \* m.stopChan has been closed
    closer,       \* the goroutine that calls Close: its position and what it saw
    store,        \* m.Store: the bbolt database behind the Host API
    pluginDir,    \* the plugin directory NewManager loaded
    now,          \* the clock, in minutes since NewManager
    probe         \* history: the calls made on the store directly, with results

vars == <<Plugins, pluginIDs, cache, jobQueue, respChan, worker, caller, callCount,
          returnedOK, stopChan, closer, store, pluginDir, now, probe>>

(***************************************************************************)
(* Bounds of the model.                                                    *)
(***************************************************************************)
NumCallers == 2
NumWorkers == 2
MaxCalls == 3
\* The number of times the clock advances.
MaxTicks == 2

Callers == 1..NumCallers
Workers == 1..NumWorkers

(***************************************************************************)
(* Program constants.                                                      *)
(***************************************************************************)
QueueFactor == 10

\* cacheTtl, in minutes
cacheTtl == 30

RenderHook == "onArticleRender"

\* models.UserRole: no user is role 0 in ExecutePipeline.
NoRole == 0
ADMIN == 3

\* The input contents of the model.  TextCollA and TextCollB are two different
\* printable strings; Md5Hex holds the MD5 digest of each content.
TextCollA == "TEXTCOLLBYfGiJUETHQ4hAcKSMd5zYpgqf1YRDhkmxHkhPWptrkoyz28wnI9V0aHeAuaKnak"
TextCollB == "TEXTCOLLBYfGiJUETHQ4hEcKSMd5zYpgqf1YRDhkmxHkhPWptrkoyz28wnI9V0aHeAuaKnak"

Contents == {<<"X">>, <<TextCollA>>, <<TextCollB>>}

(***************************************************************************)
(* Strings.                                                                *)
(***************************************************************************)
\* strings.Contains(s, sub)
Contains(s, sub) ==
    \E i \in 0..(Len(s) - Len(sub)) : SubSeq(s, i + 1, i + Len(sub)) = sub

\* strings.SplitN(s, sep, 2): the position of the first sep in s, 0 if none
FirstIndex(s, sep) ==
    IF \E i \in 1..Len(s) : s[i] = sep
    THEN CHOOSE i \in 1..Len(s) : s[i] = sep /\ \A j \in 1..(i - 1) : s[j] # sep
    ELSE 0

DigitTokens == {"0", "1", "2", "3", "4", "5", "6", "7", "8", "9"}

DigitVal(d) ==
    CASE d = "0" -> 0 [] d = "1" -> 1 [] d = "2" -> 2 [] d = "3" -> 3
      [] d = "4" -> 4 [] d = "5" -> 5 [] d = "6" -> 6 [] d = "7" -> 7
      [] d = "8" -> 8 [] d = "9" -> 9

RECURSIVE DigitsValue(_, _)
DigitsValue(s, acc) ==
    IF s = <<>> THEN acc ELSE DigitsValue(Tail(s), acc * 10 + DigitVal(Head(s)))

\* strconv.Atoi(s): an optional sign, then one or more decimal digits
AtoiBody(s) == IF s # <<>> /\ Head(s) \in {"+", "-"} THEN Tail(s) ELSE s
AtoiOk(s) == AtoiBody(s) # <<>> /\ \A i \in 1..Len(AtoiBody(s)) : AtoiBody(s)[i] \in DigitTokens
Atoi(s) ==
    IF s # <<>> /\ Head(s) = "-"
    THEN 0 - DigitsValue(AtoiBody(s), 0)
    ELSE DigitsValue(AtoiBody(s), 0)

\* md5.Sum + hex.EncodeToString of the input content
Md5Hex(input) ==
    CASE input = <<"X">> -> "02129bb861061d1a052c592e2dc6b383"
      [] input = <<"Y">> -> "57cec4137b614c87cb4e24a3d003a3e0"
      [] input = <<TextCollA>> -> "faad49866e9498fc1719f5289e7a0269"
      [] input = <<TextCollB>> -> "faad49866e9498fc1719f5289e7a0269"

\* fmt.Sprintf("pipeline:%s:%s:%s:%d", hookName, slug, hex, role)
CacheKey(hookName, slug, input, role) ==
    <<"pipeline", ":", hookName, ":">> \o slug \o <<":", Md5Hex(input), ":", ToString(role)>>

(***************************************************************************)
(* Plugin scripts.  A script is described by what its top-level code and   *)
(* its two hooks do:                                                       *)
(*   top    "ok" | "throws"   evaluation of the script in initVM           *)
(*          "stores"          ok, and the script calls Host.storage.set at *)
(*                            its top level                                *)
(*          "global"          ok, and the script assigns its render hook   *)
(*                            to the undeclared name onArticleRender, which*)
(*                            makes it a property of globalThis            *)
(*   render "absent"          no onArticleRender function                  *)
(*          "append"          returns content + suffix                     *)
(*          "random"          returns content + a value it draws           *)
(*          "flaky"           like "random", or throws an Error            *)
(*          "throws"          throws an Error                              *)
(*          "nonstring"       returns a value that is not a string         *)
(*          "keeper"          sets, gets, lists and deletes a key through  *)
(*                            Host.storage, returns content + suffix       *)
(*          "intruder"        calls __internal_storage_set with the id of  *)
(*                            another plugin (suffix), returns content     *)
(*          "tamper"          may replace JSON.stringify by a function     *)
(*                            returning a number or a text, returns content*)
(*          "visits"          reads the key "n" through Host.storage,      *)
(*                            returns content + the value read, and sets   *)
(*                            the key to suffix                            *)
(*   action "absent"          no onAction function                         *)
(*          "handler"         dispatches on the action name, see OnAction  *)
(***************************************************************************)
Script(top, render, suffix, action) ==
    [top |-> top, render |-> render, suffix |-> suffix, action |-> action]

\* The values a "random" hook can draw (Math.random()).
RandomTokens == {"r1", "r2"}

\* A directory entry: file name and content.
File(name, script) == [name |-> name, script |-> script]

\* The plugin directory of the model: lexicographic and numeric order of the
\* prefixes differ ("10-a.js" sorts before "2-b.js"), and ensureTypeDefinitions
\* has put types.d.ts there.
PluginDir ==
    { File(<<"1", "0", "-", "a", ".js">>, Script("ok", "append", "-A", "handler")),
      File(<<"2", "-", "b", ".js">>, Script("ok", "flaky", "", "absent")),
      File(<<"types", ".d", ".ts">>, Script("ok", "absent", "", "absent")) }

\* The directory of the ordering example: order 2 appends "-B", order 10
\* appends "-A".
ExampleDir ==
    { File(<<"1", "0", "-", "a", ".js">>, Script("ok", "append", "-A", "absent")),
      File(<<"2", "-", "b", ".js">>, Script("ok", "append", "-B", "absent")) }

\* A directory in which two files yield the same plugin id.
SameIdDir ==
    { File(<<"1", "-", "foo", ".js">>, Script("ok", "append", "-1", "absent")),
      File(<<"2", "-", "bar", ".js">>, Script("ok", "append", "-2", "absent")),
      File(<<"3", "-", "foo", ".js">>, Script("ok", "append", "-3", "absent")) }

\* A directory with a plugin that can throw between two that append.
ThrowDir ==
    { File(<<"1", "-", "pre", ".js">>, Script("ok", "append", "-1", "absent")),
      File(<<"2", "-", "bad", ".js">>, Script("ok", "flaky", "", "absent")),
      File(<<"3", "-", "post", ".js">>, Script("ok", "append", "-3", "absent")) }

\* A directory of plugins that use the host: p keeps a key in its storage, q
\* calls the storage function with the id of p, t may replace JSON.stringify.
HostDir ==
    { File(<<"1", "-", "p", ".js">>, Script("ok", "keeper", "-P", "handler")),
      File(<<"2", "-", "q", ".js">>, Script("ok", "intruder", "p", "absent")),
      File(<<"3", "-", "t", ".js">>, Script("ok", "tamper", "", "absent")) }

\* A directory with a plugin that writes to its storage while it is loaded
\* and from its hook, and a plugin that only appends.
TopDir ==
    { File(<<"1", "-", "s", ".js">>, Script("stores", "keeper", "-S", "handler")),
      File(<<"2", "-", "b", ".js">>, Script("ok", "append", "-B", "absent")) }

\* A directory with a plugin whose output depends on what it has stored, as
\* the comments of an article do, before a plugin that appends.
VisitsDir ==
    { File(<<"1", "-", "v", ".js">>, Script("ok", "visits", "-seen", "handler")),
      File(<<"2", "-", "b", ".js">>, Script("ok", "append", "-B", "absent")) }

\* A directory with plugins that have nothing to contribute: g assigns its
\* hook to the global name, n has no onArticleRender, v returns a non-string.
NoopDir ==
    { File(<<"1", "-", "g", ".js">>, Script("global", "append", "-G", "absent")),
      File(<<"2", "-", "n", ".js">>, Script("ok", "absent", "", "absent")),
      File(<<"3", "-", "v", ".js">>, Script("ok", "nonstring", "", "absent")),
      File(<<"4", "-", "z", ".js">>, Script("ok", "append", "-Z", "absent")) }

\* File names of every shape the directory scan tells apart; every script
\* appends a suffix of its own, which tells the loaded plugins apart.
LoadFiles ==
    { File(<<"1", "0", "-", "a", ".js">>, Script("ok", "append", "-A", "absent")),
      File(<<"2", "-", "b", ".js">>, Script("ok", "append", "-B", "absent")),
      File(<<"0", "2", "-", "g", ".js">>, Script("ok", "append", "-G", "absent")),
      File(<<"3", "-", "c", "-", "d", ".js">>, Script("ok", "append", "-C", "absent")),
      File(<<"invalid", "-", "plugin", ".js">>, Script("ok", "append", "-I", "absent")),
      File(<<"noprefix", ".js">>, Script("ok", "append", "-N", "absent")),
      File(<<"-", "7", "-", "f", ".js">>, Script("ok", "append", "-F", "absent")),
      File(<<"types", ".d", ".ts">>, Script("ok", "absent", "", "absent")) }

\* The least number of entries of a directory of the loading specification.
MinLoadFiles == 7

(***************************************************************************)
(* loadFromDirectory                                                       *)
(***************************************************************************)
\* filepath.Ext(name) == ".js"
HasJsExt(name) == name # <<>> /\ name[Len(name)] = ".js"

\* strings.TrimSuffix(s, ".js")
TrimJsSuffix(s) == IF HasJsExt(s) THEN SubSeq(s, 1, Len(s) - 1) ELSE s

\* The entries the scan keeps: a ".js" file whose name has a "-" and whose
\* part before the first "-" is a number.
IsPluginFile(f) ==
    /\ HasJsExt(f.name)
    /\ FirstIndex(f.name, "-") > 0
    /\ AtoiOk(SubSeq(f.name, 1, FirstIndex(f.name, "-") - 1))

PluginOf(f) ==
    LET i == FirstIndex(f.name, "-")
    IN [ID |-> TrimJsSuffix(SubSeq(f.name, i + 1, Len(f.name))),
        Order |-> Atoi(SubSeq(f.name, 1, i - 1)),
        Script |-> f.script]

\* No sort: the entries in whatever order os.ReadDir lists them.
IsSortedAnyhow(ps) == TRUE

\* sort.Slice(plugins, Order <): some arrangement of the kept entries with
\* non-decreasing Order (the sort is not stable, entries of equal Order may
\* come out in either order).
IsSortedByOrder(ps) == \A i \in 1..(Len(ps) - 1) : ps[i].Order <= ps[i + 1].Order

loadFromDirectory(dir) ==
    LET kept == {f \in dir : IsPluginFile(f)}
        n == Cardinality(kept)
    IN {ps \in [1..n -> {PluginOf(f) : f \in kept}] :
            /\ \E g \in [1..n -> kept] :
                 /\ \A i, j \in 1..n : i # j => g[i] # g[j]
                 /\ \A i \in 1..n : ps[i] = PluginOf(g[i])
            /\ IsSortedByOrder(ps)}

\* NewManager: pluginIDs[i] = plugins[i].ID
PluginIDsOf(plugins) == [i \in 1..Len(plugins) |-> plugins[i].ID]

(***************************************************************************)
(* The VM of a worker: initVM and the two runners injected into it.        *)
(***************************************************************************)
NoGlobals == [id \in {} |-> 0]

\* The wrapper of plugin i: typeof onArticleRender === 'function' resolves the
\* name in the scope of the wrapper function first and in the global scope
\* next, so that a script without the function exports the one an earlier
\* script left in globalThis, if any.
Exports(plugins, i) ==
    LET p == plugins[i]
        left == {j \in 1..(i - 1) : plugins[j].Script.top = "global"}
    IN IF p.Script.render = "absent" /\ left # {}
       THEN LET j == CHOOSE j \in left : \A k \in left : k <= j
            IN [p EXCEPT !.Script.render = plugins[j].Script.render,
                         !.Script.suffix = plugins[j].Script.suffix]
       ELSE p

\* The loop of initVM: globalThis['PLUGIN_' + p.ID] = exports of p, in the order
\* of m.Plugins; a later plugin of the same ID replaces the earlier one.  The
\* whole plugin record stands for its exports (the hooks are those of p.Script).
RECURSIVE EvalPlugins(_, _, _)
EvalPlugins(plugins, i, globals) ==
    IF i > Len(plugins) THEN globals
    ELSE EvalPlugins(plugins, i + 1,
            [id \in (DOMAIN globals) \cup {plugins[i].ID} |->
                IF id = plugins[i].ID THEN Exports(plugins, i) ELSE globals[id]])

\* vm.Eval of a wrapper fails when the script's top-level code throws.
initVMFails(plugins) == \E i \in 1..Len(plugins) : plugins[i].Script.top = "throws"

\* The VM after a successful initVM: the PLUGIN_ globals and the plugin list
\* that injectPipelineExecutor wrote into __run_pipeline.
\* stringify tells what JSON.stringify of the VM is: "intact", or a function
\* put there by plugin code that returns a "number" or a "text".
initVM(plugins, ids) ==
    [open |-> TRUE,
     globals |-> EvalPlugins(plugins, 1, NoGlobals),
     plugins |-> ids,
     stringify |-> "intact",
     users |-> {},
     boot |-> <<>>]

\* users is history: the workers that have created or run code in the VM;
\* boot is history, too: the storage calls the scripts made while initVM
\* evaluated them.
NoVM ==
    [open |-> FALSE, globals |-> NoGlobals, plugins |-> <<>>, stringify |-> "intact",
     users |-> {}, boot |-> <<>>]

\* typeof p[hook] === 'function' for the exports object p
HasHook(p, hook) ==
    \/ hook = "onArticleRender" /\ p.Script.render # "absent"
    \/ hook = "onAction" /\ p.Script.action # "absent"

(***************************************************************************)
(* Host.storage: the bbolt store and the functions injectHostAPI registers.*)
(* The store is [open, buckets]; buckets maps a plugin id to its keys and  *)
(* values.  failed tells that the backend returned an error for the call.  *)
(***************************************************************************)
\* newBoltStore: an open database without buckets.
NoBuckets == [ns \in {} |-> 0]
NewStore == [open |-> TRUE, buckets |-> NoBuckets]

HasKey(db, ns, key) == ns \in DOMAIN db.buckets /\ key \in DOMAIN db.buckets[ns]

\* BoltStore.Get: the value of the key, "" without the bucket or the key.
StoreGet(db, ns, key) == IF HasKey(db, ns, key) THEN db.buckets[ns][key] ELSE <<>>

\* bbolt refuses a bucket without a name (CreateBucketIfNotExists) and a key
\* without bytes (Put): Set returns the error and the transaction is undone.
SetFails(ns, key) == ns = <<>> \/ key = <<>>

\* Put that leaves a key it finds as it is.
StoreSetKeepsFirst(db, ns, key, val) ==
    IF SetFails(ns, key) \/ HasKey(db, ns, key) THEN db
    ELSE LET old == IF ns \in DOMAIN db.buckets THEN db.buckets[ns] ELSE NoBuckets
             new == [k \in (DOMAIN old) \cup {key} |-> IF k = key THEN val ELSE old[k]]
         IN [db EXCEPT !.buckets =
                [n \in (DOMAIN db.buckets) \cup {ns} |-> IF n = ns THEN new ELSE db.buckets[n]]]

\* BoltStore.Set: CreateBucketIfNotExists, Put
StoreSet(db, ns, key, val) ==
    IF SetFails(ns, key) THEN db
    ELSE LET old == IF ns \in DOMAIN db.buckets THEN db.buckets[ns] ELSE NoBuckets
             new == [k \in (DOMAIN old) \cup {key} |-> IF k = key THEN val ELSE old[k]]
         IN [db EXCEPT !.buckets =
                [n \in (DOMAIN db.buckets) \cup {ns} |-> IF n = ns THEN new ELSE db.buckets[n]]]

\* Delete that removes the key from the bucket of every plugin.
StoreDeleteEverywhere(db, ns, key) ==
    [db EXCEPT !.buckets =
        [n \in DOMAIN db.buckets |->
            [k \in (DOMAIN db.buckets[n]) \ {key} |-> db.buckets[n][k]]]]

\* BoltStore.Delete: nothing to do without the bucket
StoreDelete(db, ns, key) ==
    IF ~HasKey(db, ns, key) THEN db
    ELSE [db EXCEPT !.buckets[ns] = [k \in (DOMAIN @) \ {key} |-> @[k]]]

\* The order of keys in a bucket: bytewise, a proper prefix first.
RECURSIVE KeyLess(_, _)
KeyLess(x, y) ==
    LET ByteOf(ch) == CASE ch = "a" -> 97 [] ch = "b" -> 98 [] ch = "k" -> 107
    IN IF y = <<>> THEN FALSE
       ELSE IF x = <<>> THEN TRUE
       ELSE IF Head(x) # Head(y) THEN ByteOf(Head(x)) < ByteOf(Head(y))
       ELSE KeyLess(Tail(x), Tail(y))

\* bytes.HasPrefix(k, prefix)
HasPrefix(k, prefix) == Len(prefix) <= Len(k) /\ SubSeq(k, 1, Len(prefix)) = prefix

\* The keys of a bucket in the order of its cursor.
CursorKeys(bucket) ==
    LET n == Cardinality(DOMAIN bucket)
    IN CHOOSE ks \in [1..n -> DOMAIN bucket] :
          \A i, j \in 1..n : i < j => KeyLess(ks[i], ks[j])

\* c.First(): the position of the first key.
SeekFirst(ks, prefix) == 1

\* c.Seek(prefix): the position of the first key that is not less than
\* prefix, Len(ks) + 1 when there is none.
Seek(ks, prefix) ==
    Cardinality({i \in 1..Len(ks) : KeyLess(ks[i], prefix)}) + 1

\* BoltStore.List: from the key the cursor seeks to, the keys up to the first
\* one that does not start with prefix; no keys without the bucket.
RECURSIVE ScanFrom(_, _, _)
ScanFrom(ks, i, prefix) ==
    IF i > Len(ks) \/ ~HasPrefix(ks[i], prefix) THEN <<>>
    ELSE <<ks[i]>> \o ScanFrom(ks, i + 1, prefix)

StoreList(db, ns, prefix) ==
    IF ns \notin DOMAIN db.buckets THEN <<>>
    ELSE LET ks == CursorKeys(db.buckets[ns])
         IN ScanFrom(ks, Seek(ks, prefix), prefix)

\* The value a storage function hands to the JavaScript caller.
JSNumber(n) == [t |-> "number", text |-> <<n>>, items |-> {}]
JSText(x) == [t |-> "string", text |-> x, items |-> {}]
JSArray(xs) == [t |-> "array", text |-> <<>>, items |-> xs]

\* __internal_storage_get/set/delete/list(ns, key, val) as called from
\* JavaScript, list through JSON.parse(res) || [] of the Host shim: the store
\* afterwards and the value returned.  get returns val, "" after an error or
\* for a missing key; set and delete return the int32 1 or 0; list (key is
\* the prefix) returns the keys that start with the prefix, as an array
\* whose order is left out: no keys or an error make the JSON text "null",
\* and the shim turns that into an empty array.
StorageCall(db, ns, op, key, val, failed) ==
    LET listed == StoreList(db, ns, key)
        keys == IF failed THEN {} ELSE {listed[i] : i \in 1..Len(listed)}
    IN CASE op = "get" ->
              [db |-> db,
               ret |-> JSText(IF failed THEN <<>> ELSE StoreGet(db, ns, key))]
         [] op = "set" ->
              [db |-> IF failed THEN db ELSE StoreSet(db, ns, key, val),
               ret |-> JSNumber(IF failed \/ SetFails(ns, key) THEN "0" ELSE "1")]
         [] op = "delete" ->
              [db |-> IF failed THEN db ELSE StoreDelete(db, ns, key),
               ret |-> JSNumber(IF failed THEN "0" ELSE "1")]
         [] op = "list" ->
              [db |-> db,
               ret |-> JSArray(keys)]

\* The storage calls of a hook, in order, on db for the plugin id current in
\* globalThis.__CURRENT_PLUGIN_ID: the store afterwards and the log of the
\* calls [ns, op, key, failed, ret, host].  A call names its namespace itself
\* (ns) when the script calls __internal_storage_* directly, and goes through
\* Host.storage otherwise (ns empty, host TRUE in the log).
RECURSIVE StorageCalls(_, _, _, _, _)
StorageCalls(db, current, ops, i, log) ==
    IF i > Len(ops) THEN [db |-> db, log |-> log]
    ELSE LET ns == IF ops[i].ns = <<>> THEN current ELSE ops[i].ns
             r == StorageCall(db, ns, ops[i].op, ops[i].key, ops[i].val, ops[i].failed)
         IN StorageCalls(r.db, current, ops, i + 1,
                Append(log, [ns |-> ns, op |-> ops[i].op, key |-> ops[i].key,
                             failed |-> ops[i].failed, ret |-> r.ret,
                             host |-> ops[i].ns = <<>>]))

\* One storage call of a script.
StorageOp(ns, op, key, val, failed) ==
    [ns |-> ns, op |-> op, key |-> key, val |-> val, failed |-> failed]

\* globalThis.__CURRENT_PLUGIN_ID in a VM in which no runner has been called:
\* the name is undefined, which reaches the Go function as this text if it
\* is converted to a string at all.
NoMarker == <<"undefined">>

\* The Host.storage calls of the top-level code of a script.
TopOps(script) ==
    IF script.top = "stores"
    THEN <<StorageOp(<<>>, "set", <<"k">>, <<"boot">>, FALSE)>>
    ELSE <<>>

\* The loop of initVM from plugin i on: evaluating the wrapper of a plugin
\* runs its top-level code, before injectPipelineExecutor has defined the
\* runners and before anything has assigned __CURRENT_PLUGIN_ID.  Gives the
\* store afterwards and, for each script that called the store, its id and
\* the log of its calls.
RECURSIVE TopLevelCalls(_, _, _, _)
TopLevelCalls(plugins, i, db, log) ==
    IF i > Len(plugins) THEN [db |-> db, log |-> log]
    ELSE LET done == StorageCalls(db, NoMarker, TopOps(plugins[i].Script), 1, <<>>)
         IN TopLevelCalls(plugins, i + 1, done.db,
                IF done.log = <<>> THEN log
                ELSE Append(log, [pid |-> plugins[i].ID, ops |-> done.log]))

\* The backend errors of one hook invocation: none, or one of its calls fails.
Failures == {"none", "set", "get", "list", "delete"}

\* What one call p[hook](current, ctx) of a render hook of plugin pid can do
\* on the store db.
\* kind "string": returns value; "nonstring": returns something else;
\* "throw": throws an Error with message value; "throwBad": throws null,
\* undefined or a value whose conversion to a string throws, so that
\* String(e.message || e) in the catch block of __run_pipeline throws itself.
\* ops are the storage calls the hook makes, stringify what it makes of
\* JSON.stringify ("" when it leaves it alone).
Outcome(kind, value) == [kind |-> kind, value |-> value, ops |-> <<>>, stringify |-> ""]

RenderOutcomes(script, current, db, pid) ==
    LET drawn == {Outcome("string", current \o <<r>>) : r \in RandomTokens}
        thrown == {Outcome("throw", <<"boom">>)}
    IN CASE script.render = "append" -> {Outcome("string", current \o <<script.suffix>>)}
         [] script.render = "random" -> drawn
         [] script.render = "flaky" -> drawn \cup thrown \cup {Outcome("throwBad", <<>>)}
         [] script.render = "throws" -> thrown
         [] script.render = "nonstring" -> {Outcome("nonstring", <<>>)}
         [] script.render = "keeper" ->
                {[Outcome("string", current \o <<script.suffix>>) EXCEPT !.ops =
                    <<StorageOp(<<>>, "set", <<"k">>, current, f = "set"),
                      StorageOp(<<>>, "get", <<"k">>, <<>>, f = "get"),
                      StorageOp(<<>>, "list", <<>>, <<>>, f = "list"),
                      StorageOp(<<>>, "delete", <<"k">>, <<>>, f = "delete")>>] :
                 f \in Failures}
         [] script.render = "intruder" ->
                {[Outcome("string", current) EXCEPT !.ops =
                    <<StorageOp(<<script.suffix>>, "set", <<"k">>, <<"pwned">>, FALSE)>>]}
         [] script.render = "tamper" ->
                {[Outcome("string", current) EXCEPT !.stringify = m] :
                 m \in {"", "number", "text"}}
         [] script.render = "visits" ->
                {[Outcome("string", current \o StoreGet(db, pid, <<"n">>)) EXCEPT !.ops =
                    <<StorageOp(<<>>, "get", <<"n">>, <<>>, FALSE),
                      StorageOp(<<>>, "set", <<"n">>, <<script.suffix>>, FALSE)>>]}

\* One iteration of the loop of __run_pipeline for plugin id pid, on the state
\* st = [content, errors, calls, threw, db, stringify] of the run; calls lists
\* the hook invocations made so far (which plugin's hook ran, on what, with
\* what outcome and which storage calls).
PipelineStep(st, pid, p, hook, o) ==
    LET done == StorageCalls(st.db, pid, o.ops, 1, <<>>)
        call == [pid |-> pid, order |-> p.Order, script |-> p.Script,
                 input |-> st.content, kind |-> o.kind, output |-> o.value,
                 ops |-> done.log]
    IN [content |-> IF o.kind = "string" THEN o.value ELSE st.content,
        errors |-> IF o.kind = "throw"
                   THEN Append(st.errors, [pluginId |-> pid, hook |-> hook, error |-> o.value])
                   ELSE st.errors,
        calls |-> Append(st.calls, call),
        threw |-> o.kind = "throwBad",
        db |-> done.db,
        stringify |-> IF o.stringify = "" THEN st.stringify ELSE o.stringify]

\* __run_pipeline(hook, content, ctx) from plugin i on: the set of possible
\* final states of the run.
RECURSIVE RunPipelineFrom(_, _, _, _)
RunPipelineFrom(vm, hook, i, st) ==
    IF st.threw \/ i > Len(vm.plugins) THEN {st}
    ELSE LET pid == vm.plugins[i]
         IN IF pid \in DOMAIN vm.globals /\ HasHook(vm.globals[pid], hook)
            THEN UNION { RunPipelineFrom(vm, hook, i + 1,
                            PipelineStep(st, pid, vm.globals[pid], hook, o)) :
                         o \in RenderOutcomes(vm.globals[pid].Script, st.content, st.db, pid) }
            ELSE RunPipelineFrom(vm, hook, i + 1, st)

\* __run_pipeline_json(hook, content, ctx) in vm with the store db
RunPipeline(vm, db, hook, content) ==
    RunPipelineFrom(vm, hook, 1,
        [content |-> content, errors |-> <<>>, calls |-> <<>>, threw |-> FALSE,
         db |-> db, stringify |-> vm.stringify])

(***************************************************************************)
(* JavaScript values returned by onAction, JSON.stringify and              *)
(* encoding/json.  A JSON text is a string of the tokens                   *)
(*   {  }  ,  :  "  <text>  <number>                                       *)
(* with a string literal written as  " text "  (or  " "  when empty).      *)
(***************************************************************************)
JSUndefined == [t |-> "undefined", fields |-> <<>>, text |-> ""]
JSString(x) == [t |-> "string", fields |-> <<>>, text |-> x]
JSObject(fields) == [t |-> "object", fields |-> fields, text |-> ""]
Field(k, vt, v) == [k |-> k, vt |-> vt, v |-> v]

Quote == "\""

StringLiteral(x) == IF x = "" THEN <<Quote, Quote>> ELSE <<Quote, x, Quote>>

ValueText(f) == IF f.vt = "string" THEN StringLiteral(f.v) ELSE <<f.v>>

RECURSIVE FieldsText(_, _)
FieldsText(fields, i) ==
    IF i > Len(fields) THEN <<>>
    ELSE (IF i > 1 THEN <<",">> ELSE <<>>)
         \o StringLiteral(fields[i].k) \o <<":">> \o ValueText(fields[i])
         \o FieldsText(fields, i + 1)

\* JSON.stringify(v) for a value that is not undefined
JSONStringify(v) ==
    IF v.t = "string" THEN StringLiteral(v.text)
    ELSE <<"{">> \o FieldsText(v.fields, 1) \o <<"}">>

\* encoding/json matches an object key to a struct field by its exact name or
\* else case-insensitively (strings.EqualFold).
FoldsTo(k, name) == k = name \/ (name = "error" /\ k \in {"Error", "ERROR"})

\* json.Unmarshal([]byte(resStr), &actionResult) with
\* actionResult struct{ Error string `json:"error"` }: scans the members of an
\* object from token i on; acc = [Error, parseErr].  A member that matches the
\* field and holds a string sets Error (the last one wins); one that holds
\* null leaves it as it is; one that holds a number is a type error, reported
\* after the scan.
RECURSIVE DecodeMembers(_, _, _)
DecodeMembers(toks, i, acc) ==
    IF i + 4 > Len(toks) \/ toks[i] # Quote \/ toks[i + 2] # Quote \/ toks[i + 3] # ":"
    THEN [acc EXCEPT !.parseErr = TRUE]
    ELSE LET key == toks[i + 1]
             isStr == toks[i + 4] = Quote
             len == IF ~isStr THEN 1 ELSE IF toks[i + 5] = Quote THEN 2 ELSE 3
             val == IF isStr /\ len = 3 THEN toks[i + 5] ELSE ""
             next == i + 4 + len
             acc2 == IF ~FoldsTo(key, "error") THEN acc
                     ELSE IF isStr THEN [acc EXCEPT !.Error = val]
                     ELSE IF toks[i + 4] = "null" THEN acc
                     ELSE [acc EXCEPT !.parseErr = TRUE]
         IN IF next > Len(toks) THEN [acc2 EXCEPT !.parseErr = TRUE]
            ELSE IF toks[next] = "}" THEN acc2
            ELSE IF toks[next] = "," THEN DecodeMembers(toks, next + 1, acc2)
            ELSE [acc2 EXCEPT !.parseErr = TRUE]

UnmarshalActionResult(toks) ==
    IF toks = <<>> \/ toks[1] # "{" THEN [Error |-> "", parseErr |-> TRUE]
    ELSE IF Len(toks) >= 2 /\ toks[2] = "}" THEN [Error |-> "", parseErr |-> FALSE]
    ELSE DecodeMembers(toks, 2, [Error |-> "", parseErr |-> FALSE])

(***************************************************************************)
(* Action jobs.                                                            *)
(***************************************************************************)
\* The action names of the model and what the "handler" onAction does on each:
\* it returns a value or throws.
ActionNames ==
    {"save", "boom", "deny", "caps", "blank", "code", "both", "mixed", "null", "none",
     "text"}

OnAction(action) ==
    CASE action = "save" ->
            [kind |-> "return", value |-> JSObject(<<Field("result", "string", "done")>>)]
      [] action = "boom" -> [kind |-> "throw", value |-> JSUndefined]
      [] action = "deny" ->
            [kind |-> "return", value |-> JSObject(<<Field("error", "string", "denied")>>)]
      [] action = "caps" ->
            [kind |-> "return", value |-> JSObject(<<Field("Error", "string", "denied")>>)]
      [] action = "blank" ->
            [kind |-> "return", value |-> JSObject(<<Field("error", "string", "")>>)]
      [] action = "code" ->
            [kind |-> "return", value |-> JSObject(<<Field("error", "number", "5")>>)]
      [] action = "both" ->
            [kind |-> "return",
             value |-> JSObject(<<Field("error", "string", ""),
                                  Field("Error", "string", "denied")>>)]
      [] action = "mixed" ->
            [kind |-> "return",
             value |-> JSObject(<<Field("error", "number", "5"),
                                  Field("Error", "string", "denied")>>)]
      [] action = "null" ->
            [kind |-> "return",
             value |-> JSObject(<<Field("Error", "string", "denied"),
                                  Field("error", "null", "null")>>)]
      [] action = "text" -> [kind |-> "return", value |-> JSString("done")]
      [] OTHER -> [kind |-> "return", value |-> JSUndefined]

NotFound == "Plugin or action not found"

\* A runner without the guard on p: p.onAction of an undefined p throws.
RunPluginActionUnguarded(vm, pluginId, action) ==
    IF pluginId \in DOMAIN vm.globals /\ HasHook(vm.globals[pluginId], "onAction")
    THEN [kind |-> OnAction(action).kind, value |-> OnAction(action).value,
          invoked |-> TRUE, stringify |-> vm.stringify]
    ELSE [kind |-> "throw", value |-> JSUndefined, invoked |-> FALSE,
          stringify |-> vm.stringify]

\* __run_plugin_action(pluginId, action, payloadStr, ctx): the outcome of the
\* call, whether a plugin's onAction ran, and the JSON.stringify that
\* __run_plugin_action_json applies to the outcome.
RunPluginAction(vm, pluginId, action) ==
    IF pluginId \in DOMAIN vm.globals /\ HasHook(vm.globals[pluginId], "onAction")
    THEN [kind |-> OnAction(action).kind, value |-> OnAction(action).value,
          invoked |-> TRUE, stringify |-> vm.stringify]
    ELSE [kind |-> "return", value |-> JSObject(<<Field("error", "string", NotFound)>>),
          invoked |-> FALSE, stringify |-> vm.stringify]

(***************************************************************************)
(* jobResponse.  err is a string, empty for nil.  calls lists the plugin   *)
(* hooks the job invoked.                                                  *)
(***************************************************************************)
NilErr == <<>>

\* raw tells what vm.Call gave for the job: an "exception", a value that is
\* not a string ("nonstring"), a string json.Unmarshal rejects
\* ("undecodable"), or a string it decodes ("decoded").  before is history:
\* the callers whose action job ran while this reply lay in its channel.
Response(err, result, errors, calls) ==
    [err |-> err, result |-> result, errors |-> errors, calls |-> calls,
     raw |-> IF err = NilErr THEN "decoded" ELSE "exception",
     before |-> {}]

\* The Error values processPipelineJob builds from the decoded "errors".
GoErrors(errors) ==
    [i \in 1..Len(errors) |->
        [PluginID |-> errors[i].pluginId, Hook |-> errors[i].hook, Error |-> errors[i].error]]

\* A processPipelineJob that takes the content of the run whatever the
\* response looks like.
processPipelineJobUnchecked(st) ==
    IF st.threw
    THEN Response(<<"pipeline exception">>, <<>>, <<>>, st.calls)
    ELSE [Response(NilErr, st.content, GoErrors(st.errors), st.calls)
             EXCEPT !.raw = CASE st.stringify = "number" -> "nonstring"
                              [] st.stringify = "text" -> "undecodable"
                              [] OTHER -> "decoded"]

\* processPipelineJob for a run of __run_pipeline_json that ended in st: the
\* response is JSON.stringify(result) of the VM.
processPipelineJob(st) ==
    IF st.threw
    THEN Response(<<"pipeline exception">>, <<>>, <<>>, st.calls)
    ELSE IF st.stringify = "number"
    THEN [Response(<<"unexpected pipeline result type">>, <<>>, <<>>, st.calls)
             EXCEPT !.raw = "nonstring"]
    ELSE IF st.stringify = "text"
    THEN [Response(<<"failed to parse pipeline result">>, <<>>, <<>>, st.calls)
             EXCEPT !.raw = "undecodable"]
    ELSE Response(NilErr, st.content, GoErrors(st.errors), st.calls)

\* The response of __run_plugin_action_json for the outcome o:
\* JSON.stringify(result) of the VM; nothing for a value that is not a string.
ActionResponse(o) ==
    CASE o.stringify = "number" -> [isString |-> FALSE, text |-> <<>>]
      [] o.stringify = "text" -> [isString |-> TRUE, text |-> <<"oops">>]
      [] OTHER -> IF o.value.t = "undefined"
                  THEN [isString |-> FALSE, text |-> <<>>]
                  ELSE [isString |-> TRUE, text |-> JSONStringify(o.value)]

\* A processActionJob that does not look for an error field in the response.
processActionJobNoErrorField(o) ==
    LET calls == IF o.invoked THEN <<"onAction">> ELSE <<>>
        res == ActionResponse(o)
    IN IF o.kind = "throw"
       THEN Response(<<"action exception">>, <<>>, <<>>, calls)
       ELSE IF ~res.isString
       THEN [Response(<<"unexpected action result type">>, <<>>, <<>>, calls)
                EXCEPT !.raw = "nonstring"]
       ELSE Response(NilErr, res.text, <<>>, calls)

\* processActionJob for the outcome o of __run_plugin_action_json
processActionJob(o) ==
    LET calls == IF o.invoked THEN <<"onAction">> ELSE <<>>
        res == ActionResponse(o)
    IN IF o.kind = "throw"
       THEN Response(<<"action exception">>, <<>>, <<>>, calls)
       ELSE IF ~res.isString
       THEN [Response(<<"unexpected action result type">>, <<>>, <<>>, calls)
                EXCEPT !.raw = "nonstring"]
       ELSE LET resStr == res.text
                actionResult == UnmarshalActionResult(resStr)
                raw == IF actionResult.parseErr THEN "undecodable" ELSE "decoded"
            IN IF ~actionResult.parseErr /\ actionResult.Error # ""
               THEN [Response(<<"plugin action error: ", actionResult.Error>>,
                              <<>>, <<>>, calls) EXCEPT !.raw = raw]
               ELSE [Response(NilErr, resStr, <<>>, calls) EXCEPT !.raw = raw]

(***************************************************************************)
(* Inputs of the callers.                                                  *)
(***************************************************************************)
\* contextData: nil, or a map with "Slug" and "User" (Role 0: no user).
NilContext == [isNil |-> TRUE, Slug |-> <<>>, Role |-> NoRole]
Context(slug, role) == [isNil |-> FALSE, Slug |-> slug, Role |-> role]

(***************************************************************************)
(* Manager state.                                                          *)
(***************************************************************************)
NoKey == <<>>

\* What a call returned: ExecutePipeline's (string, []Error, error) or
\* ExecutePluginAction's (string, error); hit tells a return from the cache.
NoReturn ==
    [returned |-> FALSE, hit |-> FALSE, result |-> <<>>, errors |-> <<>>, err |-> NilErr]
Return(hit, result, errors, err) ==
    [returned |-> TRUE, hit |-> hit, result |-> result, errors |-> errors, err |-> err]

\* A caller: its position in the call (pc), the arguments and locals of its
\* current or last call, what that call returned (ret), and the history of the
\* call:
\*   alone     no other call was in flight since this call began
\*   seen      the entry cache.Get found for the key of this call
\*   jobs      the jobs this call has put on the queue
\*   hooks     the plugin hooks that ran for this call
\*   promised  the values clean calls had returned for this key when it began
\*   removed   the cache entries this call has deleted
\*   added     the cache keys this call has written
\*   afterClose  the call began after Close had returned
\*   raw       what vm.Call gave for the job of this call (see Response)
\*   fresh     for a call answered from the cache: the contents a pipeline
\*             run would have given at that moment (see FreshRun)
IdleCaller ==
    [pc |-> "idle", kind |-> "none", hook |-> "", input |-> <<>>,
     ctx |-> NilContext, pluginID |-> <<>>, action |-> "", cacheKey |-> NoKey,
     keysToDelete |-> {}, ret |-> NoReturn,
     alone |-> TRUE, seen |-> {}, jobs |-> 0, hooks |-> <<>>, promised |-> {},
     removed |-> {}, added |-> {}, afterClose |-> FALSE, raw |-> "", at |-> 0,
     fresh |-> {}]

NoJob ==
    [kind |-> "none", hook |-> "", input |-> <<>>, ctx |-> NilContext,
     pluginID |-> <<>>, action |-> "", owner |-> 0]

NoCache == [k \in {} |-> 0]

\* A worker goroutine: its position in workerLoop (init, ready, busy, stopping,
\* closed, exited), its VM and the job it is processing; failed tells that its
\* VM could not be initialised, late that it took or processed a job after
\* Close had returned.  History: created and destroyed count the calls of
\* quickjs.NewVM that returned a VM and of vm.Close; owes tells that the
\* worker held a job when the stop channel was closed and has not replied
\* to it yet, paid that it has replied to such a job.
IdleWorker ==
    [pc |-> "init", vm |-> NoVM, job |-> NoJob, failed |-> FALSE, late |-> FALSE,
     created |-> 0, destroyed |-> 0, owes |-> FALSE, paid |-> FALSE]

\* The goroutine calling Close: idle, waiting in m.wg.Wait(), or returned;
\* before and after are the cache entries around m.cache.Stop(); again tells
\* how a second call of Close has ended ("none": there has been none).
IdleCloser == [pc |-> "idle", before |-> NoCache, after |-> NoCache, again |-> "none"]

\* A channel with room for one job more.
QueueCapOneMore == NumWorkers * QueueFactor + 1

\* cap(m.jobQueue) = workerCount * 10
QueueCap == NumWorkers * QueueFactor

\* slug and role as ExecutePipeline reads them from contextData
SlugOf(ctx) == IF ctx.isNil THEN <<>> ELSE ctx.Slug
RoleOf(ctx) == IF ctx.isNil THEN NoRole ELSE ctx.Role

\* An ExecutePipeline that builds a cache key for every call.
UsesCacheAlways(slug, hookName) == TRUE

\* ExecutePipeline: the call uses the cache
UsesCache(slug, hookName) == slug # <<>> /\ hookName = "onArticleRender"

\* ExecutePipeline: cacheKey, empty when the call does not use the cache
KeyOf(hookName, initialInput, ctx) ==
    IF UsesCache(SlugOf(ctx), hookName)
    THEN CacheKey(hookName, SlugOf(ctx), initialInput, RoleOf(ctx))
    ELSE NoKey

\* A lookup that never finds an item.
CacheHitNever(items, cacheKey) == FALSE

\* ExecutePipeline: m.cache.Get(cacheKey) finds an item; an item whose
\* expiry time lies before the current time is not returned.
CacheHit(items, cacheKey) ==
    cacheKey # NoKey /\ cacheKey \in DOMAIN items /\ now <= items[cacheKey].expires

\* A Get that leaves the expiry time as it is (WithDisableTouchOnHit).
CacheTouchDisabled(items, cacheKey) == items

\* m.cache.Get(cacheKey) on an item it returns: the cache is created without
\* WithDisableTouchOnHit, so Get touches the item, which moves its expiry
\* time to now + ttl.
CacheTouch(items, cacheKey) == [items EXCEPT ![cacheKey].expires = now + cacheTtl]

\* A store that does not look at the plugin errors of the reply.
ShouldCacheIgnoringErrors(resp, cacheKey) == resp.err = NilErr /\ cacheKey # NoKey

\* ExecutePipeline: the reply is stored in the cache
ShouldCache(resp, cacheKey) ==
    resp.err = NilErr /\ Len(resp.errors) = 0 /\ cacheKey # NoKey

\* An invalidation that does not look at the error of the reply.
ShouldInvalidateAlways(resp, ctx) == ~ctx.isNil /\ ctx.Slug # <<>>

\* ExecutePluginAction: the reply invalidates the cache
ShouldInvalidate(resp, ctx) ==
    resp.err = NilErr /\ ~ctx.isNil /\ ctx.Slug # <<>>

\* A target built as if the key were "pipeline:" + slug + ":" ...
InvalidationTargetNoHook(slug) == <<"pipeline", ":">> \o slug \o <<":">>

\* ExecutePluginAction: target := ":" + slug + ":"
InvalidationTarget(slug) == <<":">> \o slug \o <<":">>

\* ExecutePluginAction: the keys of m.cache.Items() that contain the target
KeysToDelete(items, slug) ==
    {k \in DOMAIN items : Contains(k, InvalidationTarget(slug))}

\* m.cache.Set(key, value): the entry also remembers the call that wrote it
\* (its slug and input, and the reply it stored, with the callers whose
\* action job ran after the job of that reply).
CacheSet(items, key, value, call, resp) ==
    [k \in (DOMAIN items) \cup {key} |->
        IF k = key
        THEN [value |-> value, slug |-> SlugOf(call.ctx), input |-> call.input,
              hook |-> call.hook, err |-> resp.err, errors |-> resp.errors,
              expires |-> now + cacheTtl, written |-> now, used |-> now,
              before |-> resp.before]
        ELSE items[k]]

\* m.cache.Delete(key)
CacheDelete(items, key) == [k \in (DOMAIN items) \ {key} |-> items[k]]

\* History: the values remembered for key, and dropping them.
ValuesOf(pairs, key) == {p[2] : p \in {q \in pairs : q[1] = key}}
Forget(pairs, key) == {p \in pairs : p[1] # key}

(***************************************************************************)
(* Calls on the store itself (the Store interface), each one bbolt         *)
(* transaction.  probe keeps the last call with its result and the store   *)
(* before and after it, and for every namespace and key the value and the  *)
(* caller of the most recent Set that returned no error and that no Delete *)
(* of the key followed.                                                    *)
(***************************************************************************)
StoreNamespaces == {<<>>, <<"p">>, <<"q">>}
StoreKeys == {<<>>, <<"a">>, <<"a", "b">>}
StorePrefixes == {<<>>, <<"a">>, <<"a", "b">>, <<"b">>}
NoProbe == [last |-> [op |-> "none"], set |-> <<>>]

StoreCall(c, op, ns, key, val, err, ret, before, after) ==
    [by |-> c, op |-> op, ns |-> ns, key |-> key, val |-> val, err |-> err,
     ret |-> ret, before |-> before, after |-> after]

BoltStoreGet(c, ns, key) ==
    /\ store.open
    /\ probe' = [probe EXCEPT !.last =
            StoreCall(c, "Get", ns, key, <<>>, NilErr, StoreGet(store, ns, key), store, store)]
    /\ UNCHANGED <<Plugins, pluginIDs, cache, jobQueue, respChan, worker, caller,
                   callCount, returnedOK, stopChan, closer, store, pluginDir, now>>

BoltStoreSet(c, ns, key, val) ==
    /\ store.open
    /\ store' = StoreSet(store, ns, key, val)
    /\ probe' = [last |-> StoreCall(c, "Set", ns, key, val,
                             IF SetFails(ns, key) THEN <<"key or bucket name required">>
                             ELSE NilErr,
                             <<>>, store, store'),
                 set |-> IF SetFails(ns, key) THEN probe.set
                         ELSE [x \in (DOMAIN probe.set) \cup {<<ns, key>>} |->
                                  IF x = <<ns, key>> THEN [val |-> val, by |-> c]
                                  ELSE probe.set[x]]]
    /\ UNCHANGED <<Plugins, pluginIDs, cache, jobQueue, respChan, worker, caller,
                   callCount, returnedOK, stopChan, closer, pluginDir, now>>

BoltStoreDelete(c, ns, key) ==
    /\ store.open
    /\ store' = StoreDelete(store, ns, key)
    /\ probe' = [last |-> StoreCall(c, "Delete", ns, key, <<>>, NilErr, <<>>, store, store'),
                 set |-> [x \in (DOMAIN probe.set) \ {<<ns, key>>} |-> probe.set[x]]]
    /\ UNCHANGED <<Plugins, pluginIDs, cache, jobQueue, respChan, worker, caller,
                   callCount, returnedOK, stopChan, closer, pluginDir, now>>

BoltStoreList(c, ns, prefix) ==
    /\ store.open
    /\ probe' = [probe EXCEPT !.last =
            StoreCall(c, "List", ns, prefix, <<>>, NilErr, StoreList(store, ns, prefix),
                      store, store)]
    /\ UNCHANGED <<Plugins, pluginIDs, cache, jobQueue, respChan, worker, caller,
                   callCount, returnedOK, stopChan, closer, store, pluginDir, now>>

(***************************************************************************)
(* NewManager                                                              *)
(***************************************************************************)
InitManager(dirs) ==
    /\ pluginDir \in dirs
    /\ Plugins \in loadFromDirectory(pluginDir)
    /\ pluginIDs = PluginIDsOf(Plugins)
    /\ cache = NoCache
    /\ jobQueue = <<>>
    /\ respChan = [c \in Callers |-> <<>>]
    /\ worker = [w \in Workers |-> IdleWorker]
    /\ caller = [c \in Callers |-> IdleCaller]
    /\ callCount = 0
    /\ returnedOK = {}
    /\ stopChan = FALSE
    /\ closer = IdleCloser
    /\ store = NewStore
    /\ now = 0
    /\ probe = NoProbe

Init == InitManager({PluginDir})

(***************************************************************************)
(* ExecutePipeline                                                         *)
(***************************************************************************)
\* A call that starts ends the "alone" of every other caller.
Others(c, callers) ==
    [d \in Callers |-> IF d # c THEN [callers[d] EXCEPT !.alone = FALSE] ELSE callers[d]]

Quiet(c) == \A d \in Callers \ {c} : caller[d].pc = "idle"

\* History: what __run_pipeline gives for the hook and content in a sandbox
\* as initVM leaves it, on the store db: the contents it can return.
FreshRun(db, hookName, initialInput) ==
    {st.content : st \in RunPipeline(initVM(Plugins, pluginIDs), db, hookName, initialInput)}

\* Lines 147-176: read slug and role, build the key, look it up; a hit returns.
ExecutePipelineLookup(c, hookName, initialInput, ctx) ==
    /\ caller[c].pc = "idle"
    /\ callCount < MaxCalls
    /\ LET key == KeyOf(hookName, initialInput, ctx)
           hit == CacheHit(cache, key)
           call == [IdleCaller EXCEPT
                       !.kind = "pipeline", !.hook = hookName,
                       !.input = initialInput, !.ctx = ctx, !.cacheKey = key,
                       !.alone = Quiet(c),
                       !.afterClose = (closer.pc = "returned"),
                       !.seen = IF key \in DOMAIN cache /\ now <= cache[key].expires
                                THEN {cache[key]} ELSE {},
                       !.promised = ValuesOf(returnedOK, key),
                       !.at = now,
                       !.fresh = IF hit THEN FreshRun(store, hookName, initialInput)
                                 ELSE {}]
       IN /\ caller' = [Others(c, caller) EXCEPT ![c] =
                        IF hit
                        THEN [call EXCEPT !.ret = Return(TRUE, cache[key].value, <<>>, NilErr)]
                        ELSE [call EXCEPT !.pc = "send"]]
          /\ cache' = IF hit THEN [CacheTouch(cache, key) EXCEPT ![key].used = now]
                      ELSE cache
    /\ callCount' = callCount + 1
    /\ UNCHANGED <<Plugins, pluginIDs, jobQueue, respChan, worker,
                   returnedOK,
                   stopChan, closer, store,
                   pluginDir, now, probe>>

\* Lines 178-191: m.jobQueue <- jobRequest{...}
ExecutePipelineSend(c) ==
    /\ caller[c].pc = "send"
    /\ Len(jobQueue) < QueueCap
    /\ jobQueue' = Append(jobQueue,
            [NoJob EXCEPT !.kind = "pipeline", !.hook = caller[c].hook,
                          !.input = caller[c].input, !.ctx = caller[c].ctx,
                          !.owner = c])
    /\ caller' = [caller EXCEPT ![c].pc = "recv", ![c].jobs = @ + 1]
    /\ UNCHANGED <<Plugins, pluginIDs, cache, respChan, worker, callCount,
                   returnedOK,
                   stopChan, closer, store,
                   pluginDir, now, probe>>

\* Lines 193-199: resp := <-respChan, store the reply, return it.
ExecutePipelineReceive(c) ==
    /\ caller[c].pc = "recv"
    /\ caller[c].kind = "pipeline"
    /\ respChan[c] # <<>>
    /\ LET resp == Head(respChan[c])
           key == caller[c].cacheKey
           keep == ShouldCache(resp, key)
           clean == resp.err = NilErr /\ resp.errors = <<>> /\ key # NoKey
       IN /\ cache' = IF keep THEN CacheSet(cache, key, resp.result, caller[c], resp)
                      ELSE cache
          /\ caller' = [caller EXCEPT
                           ![c].pc = "idle",
                           ![c].ret = Return(FALSE, resp.result, resp.errors, resp.err),
                           ![c].hooks = resp.calls,
                           ![c].raw = resp.raw,
                           ![c].added = IF keep THEN {key} ELSE {}]
          /\ returnedOK' = IF clean THEN returnedOK \cup {<<key, resp.result>>}
                           ELSE returnedOK
    /\ respChan' = [respChan EXCEPT ![c] = Tail(@)]
    /\ UNCHANGED <<Plugins, pluginIDs, jobQueue, worker, callCount,
                   stopChan, closer, store,
                   pluginDir, now, probe>>

(***************************************************************************)
(* ExecutePluginAction                                                     *)
(***************************************************************************)
\* Lines 209-223: m.jobQueue <- jobRequest{...}
ExecutePluginActionSend(c, pluginID, action, ctx) ==
    /\ caller[c].pc = "idle"
    /\ callCount < MaxCalls
    /\ Len(jobQueue) < QueueCap
    /\ jobQueue' = Append(jobQueue,
            [NoJob EXCEPT !.kind = "action", !.pluginID = pluginID, !.action = action,
                          !.ctx = ctx, !.owner = c])
    /\ caller' = [Others(c, caller) EXCEPT ![c] =
            [IdleCaller EXCEPT !.pc = "recv", !.kind = "action",
                               !.pluginID = pluginID, !.action = action, !.ctx = ctx,
                               !.alone = Quiet(c), !.jobs = 1,
                               !.afterClose = (closer.pc = "returned")]]
    /\ callCount' = callCount + 1
    /\ UNCHANGED <<Plugins, pluginIDs, cache, respChan, worker, returnedOK,
                   stopChan, closer, store,
                   pluginDir, now, probe>>

\* Lines 225-237: resp := <-respChan; on success with a slug, collect the keys
\* of m.cache.Items() that contain ":" + slug + ":".  Returns when there is
\* nothing to delete.
ExecutePluginActionReceive(c) ==
    /\ caller[c].pc = "recv"
    /\ caller[c].kind = "action"
    /\ respChan[c] # <<>>
    /\ LET resp == Head(respChan[c])
           keys == IF ShouldInvalidate(resp, caller[c].ctx)
                   THEN KeysToDelete(cache, caller[c].ctx.Slug)
                   ELSE {}
       IN caller' = [caller EXCEPT
                        ![c].pc = IF keys = {} THEN "idle" ELSE "delete",
                        ![c].keysToDelete = keys,
                        ![c].hooks = resp.calls,
                        ![c].raw = resp.raw,
                        ![c].ret = [Return(FALSE, resp.result, <<>>, resp.err)
                                       EXCEPT !.returned = (keys = {})]]
    /\ respChan' = [respChan EXCEPT ![c] = Tail(@)]
    /\ UNCHANGED <<Plugins, pluginIDs, cache, jobQueue, worker, callCount,
                   returnedOK,
                   stopChan, closer, store,
                   pluginDir, now, probe>>

\* Lines 239-245: m.cache.Delete(k) for one collected key; returns after the last.
ExecutePluginActionDelete(c) ==
    /\ caller[c].pc = "delete"
    /\ \E k \in caller[c].keysToDelete :
          /\ cache' = CacheDelete(cache, k)
          /\ returnedOK' = Forget(returnedOK, k)
          /\ caller' = [caller EXCEPT
                           ![c].keysToDelete = @ \ {k},
                           ![c].pc = IF caller[c].keysToDelete = {k} THEN "idle" ELSE "delete",
                           ![c].ret.returned = (caller[c].keysToDelete = {k}),
                           ![c].removed = IF k \in DOMAIN cache
                                          THEN @ \cup {[key |-> k, slug |-> cache[k].slug]}
                                          ELSE @]
    /\ UNCHANGED <<Plugins, pluginIDs, jobQueue, respChan, worker, callCount,
                   stopChan, closer, store,
                   pluginDir, now, probe>>

(***************************************************************************)
(* workerLoop                                                              *)
(***************************************************************************)
\* Lines 255-271: quickjs.NewVM and initVM succeed; the worker enters its loop.
\* The top-level code of the scripts has run in initVM, and its storage calls
\* have reached the store under the id they were given (or have been refused
\* for that id and the script went on).
workerLoopInit(w) ==
    /\ worker[w].pc = "init"
    /\ ~initVMFails(Plugins)
    /\ LET top == TopLevelCalls(Plugins, 1, store, <<>>)
       IN /\ worker' = [worker EXCEPT
                           ![w].pc = "ready",
                           ![w].vm = [initVM(Plugins, pluginIDs) EXCEPT
                                         !.users = {w}, !.boot = top.log],
                           ![w].created = @ + 1]
          /\ store' \in {store, top.db}
    /\ UNCHANGED <<Plugins, pluginIDs, cache, jobQueue, respChan, caller, callCount,
                   returnedOK,
                   stopChan, closer,
                   pluginDir, now, probe>>

\* A worker that reports the failure of its VM and enters the loop all the same.
workerLoopInitFailsAndRuns(w) ==
    /\ worker[w].pc = "init"
    /\ worker' = [worker EXCEPT ![w].pc = "ready", ![w].failed = TRUE,
                                 ![w].vm = initVM(Plugins, pluginIDs)]
    /\ UNCHANGED <<Plugins, pluginIDs, cache, jobQueue, respChan, caller, callCount,
                   returnedOK, stopChan, closer, store,
                   pluginDir, now, probe>>

\* Lines 255-271: quickjs.NewVM fails and the worker returns, with only
\* m.wg.Done() deferred; or NewVM returns a VM and initVM fails, and the
\* worker returns through the deferred vm.Close().
workerLoopInitFails(w) ==
    /\ worker[w].pc = "init"
    /\ \/ worker' = [worker EXCEPT ![w].pc = "exited", ![w].failed = TRUE]
       \/ worker' = [worker EXCEPT ![w].pc = "stopping", ![w].failed = TRUE,
                                    ![w].vm = [NoVM EXCEPT !.open = TRUE, !.users = {w}],
                                    ![w].created = @ + 1]
    /\ UNCHANGED <<Plugins, pluginIDs, cache, jobQueue, respChan, caller, callCount,
                   returnedOK,
                   stopChan, closer, store,
                   pluginDir, now, probe>>

\* Lines 274-279: the cases of the select that are ready for a worker in its
\* loop.  When both are ready the select takes either.  (selectJobAnywhere is
\* a receive that does not need the worker to be in its loop.)
selectJobAnywhere(w) == jobQueue # <<>>

selectJob(w) == worker[w].pc = "ready" /\ jobQueue # <<>>

\* A stop case that is taken only when no job is waiting.
selectStopWhenIdle(w) == worker[w].pc = "ready" /\ stopChan /\ jobQueue = <<>>

\* A stop case that is taken while a job is being processed, too.
selectStopAnytime(w) == worker[w].pc \in {"ready", "busy"} /\ stopChan

selectStop(w) == worker[w].pc = "ready" /\ stopChan

\* A receive that leaves the job in the channel.
DequeueKeeps(queue) == queue

\* job := <-m.jobQueue takes the job out of the channel.
Dequeue(queue) == Tail(queue)

\* A worker that runs its jobs in the VM of worker 1.
VMOfFirst(w) == 1

\* Line 278: m.processJob(vm, job) gets the local variable vm of this
\* workerLoop, the VM the worker created.
VMOf(w) == w

\* Lines 277-278: case job := <-m.jobQueue
workerLoopReceive(w) ==
    /\ selectJob(w)
    /\ worker' = [worker EXCEPT ![w].pc = "busy", ![w].job = Head(jobQueue),
                                 ![w].late = @ \/ closer.pc = "returned"]
    /\ jobQueue' = Dequeue(jobQueue)
    /\ UNCHANGED <<Plugins, pluginIDs, cache, respChan, caller, callCount,
                   returnedOK,
                   stopChan, closer, store,
                   pluginDir, now, probe>>

\* What processJob can do with a job in a VM on the store db: the reply, and
\* what the plugin code made of the store and of the VM's JSON.stringify.
JobOutcomes(vm, db, job) ==
    IF job.kind = "pipeline"
    THEN {[resp |-> processPipelineJob(st), db |-> st.db, stringify |-> st.stringify] :
          st \in RunPipeline(vm, db, job.hook, job.input)}
    ELSE {[resp |-> processActionJob(RunPluginAction(vm, job.pluginID, job.action)),
           db |-> db, stringify |-> vm.stringify]}

\* The replies processJob can produce for a job in a VM.
JobResponses(vm, job) == {o.resp : o \in JobOutcomes(vm, store, job)}

\* A reply that goes to the channel of the next caller.
ReplyToNext(job) == (job.owner % NumCallers) + 1

\* Line 303: job.respChan is the reply channel the calling goroutine made for
\* this job.
ReplyTo(job) == job.owner

\* History: the replies of pipeline jobs that lie in their channels while
\* the action job of a caller runs remember that caller.
Overtaken(chans, job) ==
    [d \in DOMAIN chans |->
        IF job.kind = "action" /\ d \in Callers /\ caller[d].kind = "pipeline"
        THEN [i \in 1..Len(chans[d]) |->
                 [chans[d][i] EXCEPT !.before = @ \cup {job.owner}]]
        ELSE chans[d]]

\* Lines 284-304: run the job in the worker's VM, job.respChan <- resp
processJob(w) ==
    /\ worker[w].pc = "busy"
    /\ \E o \in JobOutcomes(worker[VMOf(w)].vm, store, worker[w].job) :
          /\ respChan' = [Overtaken(respChan, worker[w].job)
                             EXCEPT ![ReplyTo(worker[w].job)] = Append(@, o.resp)]
          /\ store' = o.db
          /\ worker' = [[worker EXCEPT ![w].pc = "ready", ![w].job = NoJob,
                                        ![w].late = @ \/ closer.pc = "returned",
                                        ![w].owes = FALSE,
                                        ![w].paid = @ \/ worker[w].owes]
                            EXCEPT ![VMOf(w)].vm.stringify = o.stringify,
                                   ![VMOf(w)].vm.users = @ \cup {w}]
    /\ UNCHANGED <<Plugins, pluginIDs, cache, jobQueue, caller, callCount,
                   returnedOK, stopChan, closer,
                   pluginDir, now, probe>>

\* Lines 275-276: case <-m.stopChan: return
workerLoopStop(w) ==
    /\ selectStop(w)
    /\ worker' = [worker EXCEPT ![w].pc = "stopping"]
    /\ UNCHANGED <<Plugins, pluginIDs, cache, jobQueue, respChan, caller, callCount,
                   returnedOK, stopChan, closer, store,
                   pluginDir, now, probe>>

\* A return that leaves the VM as it is.
workerLoopCloseVMSkipped(w) ==
    /\ worker[w].pc = "stopping"
    /\ worker' = [worker EXCEPT ![w].pc = "closed"]
    /\ UNCHANGED <<Plugins, pluginIDs, cache, jobQueue, respChan, caller, callCount,
                   returnedOK, stopChan, closer, store, pluginDir, now, probe>>

\* Lines 260-265: the deferred vm.Close() runs first on return.
workerLoopCloseVM(w) ==
    /\ worker[w].pc = "stopping"
    /\ worker' = [worker EXCEPT ![w].pc = "closed", ![w].vm.open = FALSE,
                                 ![w].destroyed = @ + 1]
    /\ UNCHANGED <<Plugins, pluginIDs, cache, jobQueue, respChan, caller, callCount,
                   returnedOK, stopChan, closer, store,
                   pluginDir, now, probe>>

\* Line 250: the deferred m.wg.Done() runs last; the goroutine ends.
workerLoopDone(w) ==
    /\ worker[w].pc = "closed"
    /\ worker' = [worker EXCEPT ![w].pc = "exited"]
    /\ UNCHANGED <<Plugins, pluginIDs, cache, jobQueue, respChan, caller, callCount,
                   returnedOK, stopChan, closer, store,
                   pluginDir, now, probe>>

(***************************************************************************)
(* Close                                                                   *)
(***************************************************************************)
\* A Stop that empties the cache.
CacheStopDrains(items) == NoCache

\* m.cache.Stop() ends the expiration loop of the cache; it removes no entry.
CacheStop(items) == items

\* A Close that does not wait for the workers.
wgWaitAbsent(workers) == TRUE

\* m.wg.Wait() returns once every worker has called m.wg.Done().
wgWait(workers) == \A w \in Workers : workers[w].pc = "exited"

\* Lines 123-126: m.cache.Stop(); close(m.stopChan)
CloseSignal ==
    /\ closer.pc = "idle"
    /\ cache' = CacheStop(cache)
    /\ stopChan' = TRUE
    /\ closer' = [pc |-> "waiting", before |-> cache, after |-> CacheStop(cache),
                  again |-> "none"]
    /\ worker' = [w \in Workers |-> [worker[w] EXCEPT !.owes = (worker[w].pc = "busy")]]
    /\ UNCHANGED <<Plugins, pluginIDs, jobQueue, respChan, caller, callCount,
                   returnedOK, store,
                   pluginDir, now, probe>>

\* Lines 127-133: m.wg.Wait() returns; m.Store.Close(); Close returns.
CloseWait ==
    /\ closer.pc = "waiting"
    /\ wgWait(worker)
    /\ store' = [store EXCEPT !.open = FALSE]
    /\ closer' = [closer EXCEPT !.pc = "returned"]
    /\ UNCHANGED <<Plugins, pluginIDs, cache, jobQueue, respChan, worker, caller,
                   callCount, returnedOK, stopChan,
                   pluginDir, now, probe>>

\* Lines 123-126 in a call of Close after Close has returned: m.cache.Stop()
\* on a cache whose expiry loop has ended returns or waits for a loop that
\* is no more; when it returns, close(m.stopChan) closes a closed channel,
\* which is a run-time panic.  No statement of Close recovers the panic.
SecondCloseOutcomes == {"blocked", "panic"}

CloseAgain ==
    /\ closer.pc = "returned"
    /\ closer.again = "none"
    /\ \E o \in SecondCloseOutcomes : closer' = [closer EXCEPT !.again = o]
    /\ UNCHANGED <<Plugins, pluginIDs, cache, jobQueue, respChan, worker, caller,
                   callCount, returnedOK, stopChan, store,
                   pluginDir, now, probe>>

(***************************************************************************)
(* The cache drops an entry whose TTL has run out.                         *)
(***************************************************************************)
cacheExpire ==
    \E k \in DOMAIN cache :
        /\ cache' = CacheDelete(cache, k)
        /\ returnedOK' = Forget(returnedOK, k)
        /\ UNCHANGED <<Plugins, pluginIDs, jobQueue, respChan, worker, caller, callCount,
                       stopChan, closer, store,
                   pluginDir, now, probe>>

\* The expiry loop of the cache (go cache.Start()): an item whose expiry time
\* has passed is removed.
cacheExpireDue ==
    \E k \in DOMAIN cache :
        /\ cache[k].expires < now
        /\ cache' = CacheDelete(cache, k)
        /\ returnedOK' = Forget(returnedOK, k)
        /\ UNCHANGED <<Plugins, pluginIDs, jobQueue, respChan, worker, caller, callCount,
                       stopChan, closer, store, pluginDir, now, probe>>

\* Time passes: two thirds of cacheTtl at a time.
Tick ==
    /\ now < MaxTicks * ((2 * cacheTtl) \div 3)
    /\ now' = now + (2 * cacheTtl) \div 3
    /\ UNCHANGED <<Plugins, pluginIDs, cache, jobQueue, respChan, worker, caller,
                   callCount, returnedOK, stopChan, closer, store, pluginDir, probe>>

(***************************************************************************)
(* Specifications.  Each draws the callers' inputs from its own sets.      *)
(***************************************************************************)
SlugA == <<"a">>
\* A slug that reads like the hook name.
SlugHook == <<RenderHook>>

\* Rendering with the cache: one slug, contents that differ.
CacheInputs == {<<RenderHook, i, Context(SlugA, NoRole)>> : i \in Contents}

Next ==
    \/ \E c \in Callers, in \in CacheInputs : ExecutePipelineLookup(c, in[1], in[2], in[3])
    \/ \E c \in Callers : ExecutePipelineSend(c)
    \/ \E c \in Callers : ExecutePipelineReceive(c)
    \/ \E w \in Workers : workerLoopInit(w)
    \/ \E w \in Workers : workerLoopReceive(w)
    \/ \E w \in Workers : processJob(w)
    \/ cacheExpire

Spec == Init /\ [][Next]_vars

\* Rendering and plugin actions: two slugs, one of them reading like the hook
\* name; actions that succeed, fail in each way, or name a plugin that is not
\* loaded or has no onAction.
RenderInputs ==
    {<<RenderHook, <<"X">>, Context(SlugA, NoRole)>>,
     <<RenderHook, <<"X">>, Context(SlugA, ADMIN)>>,
     <<RenderHook, <<"X">>, Context(SlugHook, NoRole)>>}

ActionInputs ==
    {<<<<"a">>, "save", Context(SlugA, NoRole)>>,
     <<<<"a">>, "save", Context(SlugHook, NoRole)>>,
     <<<<"a">>, "boom", Context(SlugA, NoRole)>>,
     <<<<"a">>, "deny", Context(SlugA, NoRole)>>,
     <<<<"a">>, "none", Context(SlugA, NoRole)>>,
     <<<<"a">>, "caps", Context(SlugA, NoRole)>>,
     <<<<"a">>, "code", Context(SlugA, NoRole)>>,
     <<<<"a">>, "blank", NilContext>>,
     <<<<"a">>, "both", NilContext>>,
     <<<<"a">>, "mixed", NilContext>>,
     <<<<"a">>, "null", NilContext>>,
     <<<<"a">>, "text", NilContext>>,
     <<<<"b">>, "save", Context(SlugA, NoRole)>>,
     <<<<"missing-id">>, "save", Context(SlugA, NoRole)>>}

NextAction ==
    \/ \E c \in Callers, in \in RenderInputs : ExecutePipelineLookup(c, in[1], in[2], in[3])
    \/ \E c \in Callers : ExecutePipelineSend(c)
    \/ \E c \in Callers : ExecutePipelineReceive(c)
    \/ \E c \in Callers, in \in ActionInputs : ExecutePluginActionSend(c, in[1], in[2], in[3])
    \/ \E c \in Callers : ExecutePluginActionReceive(c)
    \/ \E c \in Callers : ExecutePluginActionDelete(c)
    \/ \E w \in Workers : workerLoopInit(w)
    \/ \E w \in Workers : workerLoopReceive(w)
    \/ \E w \in Workers : processJob(w)
    \/ cacheExpire

SpecAction == Init /\ [][NextAction]_vars

\* Pipeline runs over directories of plugins that append to the content.
InitPipeline == InitManager({ExampleDir, SameIdDir, ThrowDir})

PipelineInputs ==
    {<<RenderHook, <<"X">>, NilContext>>,
     <<RenderHook, <<"X">>, Context(SlugA, NoRole)>>,
     <<RenderHook, <<"Y">>, Context(SlugA, NoRole)>>,
     <<"onSave", <<"X">>, Context(SlugA, NoRole)>>}

NextPipeline ==
    \/ \E c \in Callers, in \in PipelineInputs : ExecutePipelineLookup(c, in[1], in[2], in[3])
    \/ \E c \in Callers : ExecutePipelineSend(c)
    \/ \E c \in Callers : ExecutePipelineReceive(c)
    \/ \E w \in Workers : workerLoopInit(w)
    \/ \E w \in Workers : workerLoopReceive(w)
    \/ \E w \in Workers : processJob(w)
    \/ cacheExpire

SpecPipeline == InitPipeline /\ [][NextPipeline]_vars

\* Renders of one article while time passes; entries leave the cache only
\* when their time is up.
NextTtl ==
    \/ \E c \in Callers :
          ExecutePipelineLookup(c, RenderHook, <<"X">>, Context(SlugA, NoRole))
    \/ \E c \in Callers : ExecutePipelineSend(c)
    \/ \E c \in Callers : ExecutePipelineReceive(c)
    \/ \E w \in Workers : workerLoopInit(w)
    \/ \E w \in Workers : workerLoopReceive(w)
    \/ \E w \in Workers : processJob(w)
    \/ cacheExpireDue
    \/ Tick

SpecTtl == InitManager({ExampleDir}) /\ [][NextTtl]_vars

\* Callers that use the store of a manager directly.
NextStore ==
    \/ \E c \in Callers, ns \in StoreNamespaces, key \in StoreKeys : BoltStoreGet(c, ns, key)
    \/ \E c \in Callers, ns \in StoreNamespaces, key \in StoreKeys,
          val \in {<<"1">>, <<"2">>} :
            BoltStoreSet(c, ns, key, val)
    \/ \E c \in Callers, ns \in StoreNamespaces, key \in StoreKeys : BoltStoreDelete(c, ns, key)
    \/ \E c \in Callers, ns \in StoreNamespaces, prefix \in StorePrefixes :
            BoltStoreList(c, ns, prefix)

SpecStore == Init /\ [][NextStore]_vars

\* NewManager over directories with well-formed and malformed file names.
InitLoad == InitManager({d \in SUBSET LoadFiles : Cardinality(d) >= MinLoadFiles})

SpecLoad == InitLoad /\ [][NextPipeline]_vars

\* Pipeline runs over a directory with plugins that contribute nothing.
InitNoop == InitManager({NoopDir})

SpecNoop == InitNoop /\ [][NextPipeline]_vars

\* Shutdown: rendering and an action while workers start, fail to start or
\* stop, and Close is called once.
InitClose == InitManager({PluginDir})

CloseInputs == {<<RenderHook, <<"X">>, Context(SlugA, NoRole)>>}

CloseActionInputs == {<<<<"a">>, "save", Context(SlugA, NoRole)>>}

NextClose ==
    \/ \E c \in Callers, in \in CloseInputs : ExecutePipelineLookup(c, in[1], in[2], in[3])
    \/ \E c \in Callers : ExecutePipelineSend(c)
    \/ \E c \in Callers : ExecutePipelineReceive(c)
    \/ \E c \in Callers, in \in CloseActionInputs :
          ExecutePluginActionSend(c, in[1], in[2], in[3])
    \/ \E c \in Callers : ExecutePluginActionReceive(c)
    \/ \E c \in Callers : ExecutePluginActionDelete(c)
    \/ \E w \in Workers : workerLoopInit(w)
    \/ \E w \in Workers : workerLoopInitFails(w)
    \/ \E w \in Workers : workerLoopReceive(w)
    \/ \E w \in Workers : processJob(w)
    \/ \E w \in Workers : workerLoopStop(w)
    \/ \E w \in Workers : workerLoopCloseVM(w)
    \/ \E w \in Workers : workerLoopDone(w)
    \/ CloseSignal
    \/ CloseWait
    \/ cacheExpire

SpecClose == InitClose /\ [][NextClose]_vars

\* Concurrent rendering of different contents by a pool in which a worker may
\* fail to start.  Every goroutine that can take a step eventually takes it:
\* the Go scheduler runs each runnable goroutine, and every plugin invocation
\* of the model terminates.
InitLive == InitManager({ExampleDir})

LiveInputs ==
    {<<RenderHook, <<"X">>, Context(SlugA, NoRole)>>,
     <<RenderHook, <<"Y">>, Context(SlugA, NoRole)>>}

NextLive ==
    \/ \E c \in Callers, in \in LiveInputs : ExecutePipelineLookup(c, in[1], in[2], in[3])
    \/ \E c \in Callers : ExecutePipelineSend(c)
    \/ \E c \in Callers : ExecutePipelineReceive(c)
    \/ \E w \in Workers : workerLoopInit(w)
    \/ \E w \in Workers : workerLoopInitFails(w)
    \/ \E w \in Workers : workerLoopReceive(w)
    \/ \E w \in Workers : processJob(w)
    \/ cacheExpire

Fairness ==
    /\ \A c \in Callers : WF_vars(ExecutePipelineSend(c))
    /\ \A c \in Callers : WF_vars(ExecutePipelineReceive(c))
    /\ \A w \in Workers : WF_vars(workerLoopReceive(w))
    /\ \A w \in Workers : WF_vars(processJob(w))

SpecLive == InitLive /\ [][NextLive]_vars /\ Fairness

\* Shutdown under load: callers that never stop rendering (without a slug, so
\* that every call makes a job) while Close is called.  MoreCalls begins the count of calls
\* anew, so that the callers go on for ever.
MoreCalls ==
    /\ callCount = MaxCalls
    /\ callCount' = 0
    /\ UNCHANGED <<Plugins, pluginIDs, cache, jobQueue, respChan, worker, caller,
                   returnedOK, stopChan, closer, store, pluginDir, now, probe>>

StopInputs == {<<RenderHook, <<"X">>, NilContext>>}

NextStop ==
    \/ \E c \in Callers, in \in StopInputs : ExecutePipelineLookup(c, in[1], in[2], in[3])
    \/ \E c \in Callers : ExecutePipelineSend(c)
    \/ \E c \in Callers : ExecutePipelineReceive(c)
    \/ \E w \in Workers : workerLoopInit(w)
    \/ \E w \in Workers : workerLoopInitFails(w)
    \/ \E w \in Workers : workerLoopReceive(w)
    \/ \E w \in Workers : processJob(w)
    \/ \E w \in Workers : workerLoopStop(w)
    \/ \E w \in Workers : workerLoopCloseVM(w)
    \/ \E w \in Workers : workerLoopDone(w)
    \/ CloseSignal
    \/ CloseWait
    \/ MoreCalls

\* Every goroutine of the pool that can take a step eventually takes it, and
\* every plugin invocation terminates (processJob).  The select of a worker
\* whose stop case and job case are both ready takes one of them at random:
\* a worker that comes back to its select again and again eventually takes
\* the stop case (strong fairness).  Nothing is assumed of the callers.
FairnessStop ==
    /\ \A w \in Workers : WF_vars(workerLoopInit(w) \/ workerLoopInitFails(w))
    /\ \A w \in Workers : WF_vars(processJob(w))
    /\ \A w \in Workers : SF_vars(workerLoopStop(w))
    /\ \A w \in Workers : WF_vars(workerLoopCloseVM(w))
    /\ \A w \in Workers : WF_vars(workerLoopDone(w))
    /\ WF_vars(CloseWait)

SpecStop == InitManager({ExampleDir}) /\ [][NextStop]_vars /\ FairnessStop

\* Close called a second time: renders, workers that start and stop, Close
\* and a further call of Close after the first has returned.
NextAgain ==
    \/ \E c \in Callers :
          ExecutePipelineLookup(c, RenderHook, <<"X">>, Context(SlugA, NoRole))
    \/ \E c \in Callers : ExecutePipelineSend(c)
    \/ \E c \in Callers : ExecutePipelineReceive(c)
    \/ \E w \in Workers : workerLoopInit(w)
    \/ \E w \in Workers : workerLoopReceive(w)
    \/ \E w \in Workers : processJob(w)
    \/ \E w \in Workers : workerLoopStop(w)
    \/ \E w \in Workers : workerLoopCloseVM(w)
    \/ \E w \in Workers : workerLoopDone(w)
    \/ CloseSignal
    \/ CloseWait
    \/ CloseAgain

SpecAgain == InitManager({ExampleDir}) /\ [][NextAgain]_vars

\* A manager whose job queue lacks one job to be full: the jobs of callers
\* that wait for their replies and do nothing else (their reply channels are
\* the ones beyond those of Callers).
InitQueue ==
    /\ pluginDir = ExampleDir
    /\ Plugins \in loadFromDirectory(pluginDir)
    /\ pluginIDs = PluginIDsOf(Plugins)
    /\ cache = NoCache
    /\ jobQueue = [i \in 1..(QueueCap - 1) |->
                      [NoJob EXCEPT !.kind = "pipeline", !.hook = RenderHook,
                                    !.input = <<"X">>, !.owner = NumCallers + i]]
    /\ respChan = [c \in 1..(NumCallers + QueueCap - 1) |-> <<>>]
    /\ worker = [w \in Workers |-> IdleWorker]
    /\ caller = [c \in Callers |-> IdleCaller]
    /\ callCount = 0
    /\ returnedOK = {}
    /\ stopChan = FALSE
    /\ closer = IdleCloser
    /\ store = NewStore
    /\ now = 0
    /\ probe = NoProbe

SpecQueue == InitQueue /\ [][NextLive]_vars

\* Plugins that use the host: rendering with and without a slug, another
\* hook, and actions whose responses decode, do not decode or are no string.
InitHost == InitManager({HostDir})

HostInputs ==
    {<<RenderHook, <<"X">>, Context(SlugA, NoRole)>>,
     <<RenderHook, <<"X">>, NilContext>>,
     <<"onSave", <<"X">>, Context(SlugA, NoRole)>>}

HostActionInputs ==
    {<<<<"p">>, "save", Context(SlugA, NoRole)>>,
     <<<<"p">>, "text", NilContext>>,
     <<<<"p">>, "none", NilContext>>}

NextHost ==
    \/ \E c \in Callers, in \in HostInputs : ExecutePipelineLookup(c, in[1], in[2], in[3])
    \/ \E c \in Callers : ExecutePipelineSend(c)
    \/ \E c \in Callers : ExecutePipelineReceive(c)
    \/ \E c \in Callers, in \in HostActionInputs :
          ExecutePluginActionSend(c, in[1], in[2], in[3])
    \/ \E c \in Callers : ExecutePluginActionReceive(c)
    \/ \E c \in Callers : ExecutePluginActionDelete(c)
    \/ \E w \in Workers : workerLoopInit(w)
    \/ \E w \in Workers : workerLoopReceive(w)
    \/ \E w \in Workers : processJob(w)
    \/ cacheExpire

SpecHost == InitHost /\ [][NextHost]_vars

\* A plugin that calls its storage while it is loaded: rendering and actions
\* of that plugin.
InitTop == InitManager({TopDir})

TopInputs ==
    {<<RenderHook, <<"X">>, Context(SlugA, NoRole)>>,
     <<RenderHook, <<"Y">>, NilContext>>}

TopActionInputs ==
    {<<<<"s">>, "save", Context(SlugA, NoRole)>>,
     <<<<"s">>, "none", NilContext>>}

NextTop ==
    \/ \E c \in Callers, in \in TopInputs : ExecutePipelineLookup(c, in[1], in[2], in[3])
    \/ \E c \in Callers : ExecutePipelineSend(c)
    \/ \E c \in Callers : ExecutePipelineReceive(c)
    \/ \E c \in Callers, in \in TopActionInputs :
          ExecutePluginActionSend(c, in[1], in[2], in[3])
    \/ \E c \in Callers : ExecutePluginActionReceive(c)
    \/ \E c \in Callers : ExecutePluginActionDelete(c)
    \/ \E w \in Workers : workerLoopInit(w)
    \/ \E w \in Workers : workerLoopReceive(w)
    \/ \E w \in Workers : processJob(w)

SpecTop == InitTop /\ [][NextTop]_vars

\* A plugin whose output depends on its stored data: renders of one article
\* and of another, and actions of the plugin.
VisitsInputs ==
    {<<RenderHook, <<"X">>, Context(SlugA, NoRole)>>,
     <<RenderHook, <<"X">>, Context(SlugA, ADMIN)>>,
     <<RenderHook, <<"Y">>, Context(SlugA, NoRole)>>}

NextVisits ==
    \/ \E c \in Callers, in \in VisitsInputs : ExecutePipelineLookup(c, in[1], in[2], in[3])
    \/ \E c \in Callers : ExecutePipelineSend(c)
    \/ \E c \in Callers : ExecutePipelineReceive(c)
    \/ \E c \in Callers : ExecutePluginActionSend(c, <<"v">>, "save", Context(SlugA, NoRole))
    \/ \E c \in Callers : ExecutePluginActionReceive(c)
    \/ \E c \in Callers : ExecutePluginActionDelete(c)
    \/ \E w \in Workers : workerLoopInit(w)
    \/ \E w \in Workers : workerLoopReceive(w)
    \/ \E w \in Workers : processJob(w)

SpecVisits == InitManager({VisitsDir}) /\ [][NextVisits]_vars

(***************************************************************************)
(* Properties of the result cache.                                         *)
(***************************************************************************)
\* The calls the properties speak about.
PipelineCall(c) == caller[c].kind = "pipeline"
ActionCall(c) == caller[c].kind = "action"
HasReturned(c) == caller[c].pc = "idle" /\ caller[c].ret.returned

\* A job of caller c is on the queue, with a worker, or answered and not read.
JobPending(c) ==
    \/ \E i \in 1..Len(jobQueue) : jobQueue[i].owner = c
    \/ \E w \in Workers : worker[w].job.owner = c
    \/ respChan[c] # <<>>

\* C1: an ExecutePipeline call for 'onArticleRender' with a non-empty slug that
\* finds an entry under its key has returned that entry's value, without plugin
\* errors and without error, and has put no job on the queue: nothing is
\* pending or was processed for it.
C1_HitReturnsEntryWithoutJob ==
    \A c \in Callers :
        (/\ PipelineCall(c)
         /\ caller[c].hook = "onArticleRender"
         /\ SlugOf(caller[c].ctx) # <<>>
         /\ caller[c].seen # {})
        => /\ HasReturned(c)
           /\ \A e \in caller[c].seen :
                 caller[c].ret = Return(TRUE, e.value, <<>>, NilErr)
           /\ caller[c].jobs = 0
           /\ caller[c].hooks = <<>>
           /\ ~JobPending(c)

\* C1 witness: a call has been answered from an entry another call stored.
C1_Witness ==
    \E c \in Callers :
        /\ PipelineCall(c) /\ HasReturned(c) /\ caller[c].ret.hit
        /\ caller[c].seen # {}
        /\ caller[c].ret.result # <<>>

\* C2: every cache entry was written from a reply with no fatal error and an
\* empty plugin-error list, and a call whose run reported a fatal error or a
\* plugin error has written no entry.
C2_OnlyCleanRunsAreCached ==
    /\ \A k \in DOMAIN cache : cache[k].err = NilErr /\ cache[k].errors = <<>>
    /\ \A c \in Callers :
          (/\ PipelineCall(c) /\ HasReturned(c)
           /\ (caller[c].ret.err # NilErr \/ caller[c].ret.errors # <<>>))
          => caller[c].added = {}

\* C2 witness: a run with a plugin error has returned for a cacheable key while
\* the cache holds an entry of a clean run.
C2_Witness ==
    /\ cache # NoCache
    /\ \E c \in Callers :
          /\ PipelineCall(c) /\ HasReturned(c)
          /\ caller[c].cacheKey # NoKey
          /\ caller[c].ret.errors # <<>>
          /\ caller[c].added = {}

\* C3: a call returns the value every earlier clean call with the same key has
\* returned (the key not deleted or expired since), as a hit that runs no
\* plugin.
C3_LaterCallReturnsSame ==
    \A c \in Callers :
        (PipelineCall(c) /\ HasReturned(c))
        => \A v \in caller[c].promised :
              /\ caller[c].ret.result = v
              /\ caller[c].ret.hit
              /\ caller[c].hooks = <<>>

\* C4: a call is answered from the cache only with an entry stored for its own
\* content: against an entry of other content (same hook, slug and role) it
\* misses and puts a job on the queue.
C4_ChangedContentMisses ==
    \A c \in Callers :
        (PipelineCall(c) /\ HasReturned(c))
        => \A e \in caller[c].seen :
              e.input # caller[c].input => (~caller[c].ret.hit /\ caller[c].jobs = 1)

(***************************************************************************)
(* Properties of plugin actions.                                           *)
(***************************************************************************)
Succeeded(c) == HasReturned(c) /\ caller[c].ret.err = NilErr
LoadedIDs == {Plugins[i].ID : i \in 1..Len(Plugins)}

\* C5: after a successful ExecutePluginAction with slug S, no other call in
\* flight, the cache holds no entry stored for slug S, of any role or content,
\* and a render for S finds nothing under its key.
C5_InvalidationDropsSlug ==
    \A c \in Callers :
        (ActionCall(c) /\ Succeeded(c) /\ caller[c].alone)
        => /\ \A k \in DOMAIN cache : cache[k].slug # SlugOf(caller[c].ctx)
           /\ \A in \in RenderInputs :
                 SlugOf(in[3]) = SlugOf(caller[c].ctx)
                 => ~CacheHit(cache, KeyOf(in[1], in[2], in[3]))

\* C5 witness: a successful action with slug S, alone, has deleted an entry
\* stored for S.
C5_Witness ==
    \E c \in Callers :
        /\ ActionCall(c) /\ Succeeded(c) /\ caller[c].alone
        /\ \E e \in caller[c].removed : e.slug = SlugOf(caller[c].ctx)

\* C6: an ExecutePluginAction with slug S deletes only entries stored for S:
\* every entry stored for another slug stays.
C6_OtherSlugsUntouched ==
    \A c \in Callers :
        ActionCall(c) => \A e \in caller[c].removed : e.slug = SlugOf(caller[c].ctx)

\* C7: an ExecutePluginAction whose onAction throws, whose response carries an
\* error field, or whose response is unusable, returns an error; and a call
\* that returns an error has neither added nor removed a cache entry, also
\* when its context carries a slug.
C7_FailedActionKeepsCache ==
    \A c \in Callers :
        (ActionCall(c) /\ HasReturned(c))
        => /\ (caller[c].pluginID = <<"a">> /\ caller[c].action \in {"boom", "deny", "none"})
              => caller[c].ret.err # NilErr
           /\ caller[c].ret.err # NilErr
              => /\ caller[c].removed = {}
                 /\ caller[c].added = {}
                 /\ caller[c].keysToDelete = {}
                 /\ caller[c].ret.result = <<>>

\* C7 witness: an action has failed with slug S while the cache holds an entry
\* stored for S.
C7_Witness ==
    \E c \in Callers :
        /\ ActionCall(c) /\ HasReturned(c)
        /\ caller[c].ret.err # NilErr
        /\ caller[c].action = "boom"
        /\ \E k \in DOMAIN cache : cache[k].slug = SlugOf(caller[c].ctx)

\* C8: ExecutePluginAction for a plugin id that is not loaded returns the
\* 'not found' error, runs no hook of any plugin, and neither adds nor removes
\* a cache entry.
C8_MissingPluginNotFound ==
    \A c \in Callers :
        (ActionCall(c) /\ HasReturned(c) /\ caller[c].pluginID \notin LoadedIDs)
        => /\ caller[c].ret.err = <<"plugin action error: ", NotFound>>
           /\ caller[c].ret.result = <<>>
           /\ caller[c].hooks = <<>>
           /\ caller[c].removed = {}
           /\ caller[c].added = {}

\* C8 witness: a call for an id that is not loaded has returned while the cache
\* holds an entry stored for its slug.
C8_Witness ==
    \E c \in Callers :
        /\ ActionCall(c) /\ HasReturned(c)
        /\ caller[c].pluginID \notin LoadedIDs
        /\ \E k \in DOMAIN cache : cache[k].slug = SlugOf(caller[c].ctx)

\* The response of the action runner for the call of c.
RunnerResponse(c) ==
    RunPluginAction(initVM(Plugins, pluginIDs), caller[c].pluginID, caller[c].action)

\* The response value has a non-empty field named exactly 'error'.
HasErrorField(v) ==
    /\ v.t = "object"
    /\ \E i \in 1..Len(v.fields) : v.fields[i].k = "error" /\ v.fields[i].v # ""

ErrorFieldOf(v) ==
    v.fields[CHOOSE i \in 1..Len(v.fields) : v.fields[i].k = "error"].v

\* C9 as stated: a response with a non-empty 'error' field makes the call fail
\* with that message, and every response without such a field is returned as
\* the result string with no error.
C9_ErrorFieldDecides ==
    \A c \in Callers :
        (ActionCall(c) /\ HasReturned(c) /\ RunnerResponse(c).kind = "return")
        => LET v == RunnerResponse(c).value
           IN IF HasErrorField(v)
              THEN caller[c].ret.err = <<"plugin action error: ", ErrorFieldOf(v)>>
              ELSE /\ caller[c].ret.err = NilErr
                   /\ caller[c].ret.result = JSONStringify(v)

\* The keys that name the error field in some letter case.
ErrorKeys == {"error", "Error", "ERROR"}

\* The message a response value declares: the string of its last field named
\* 'error' in any letter case that is not null; "" when it has none, is no
\* object, or holds a field so named that is neither a string nor null.
DeclaredError(v) ==
    LET idx == IF v.t = "object"
               THEN {i \in 1..Len(v.fields) :
                        v.fields[i].k \in ErrorKeys /\ v.fields[i].vt # "null"}
               ELSE {}
    IN IF idx = {} \/ \E i \in idx : v.fields[i].vt # "string"
       THEN ""
       ELSE v.fields[CHOOSE i \in idx : \A j \in idx : j <= i].v

\* C9 amended: a response that is a JSON text declaring a non-empty error
\* message (the string of its last non-null field named 'error' in any letter
\* case) makes the call fail with that message; every other JSON text, also
\* one with a field so named that is neither a string nor null, is returned as
\* the result string with no error; a response that is no string makes the
\* call fail.
C9_DeclaredErrorDecides ==
    \A c \in Callers :
        (ActionCall(c) /\ HasReturned(c) /\ RunnerResponse(c).kind = "return")
        => LET v == RunnerResponse(c).value
           IN IF v.t = "undefined"
              THEN caller[c].ret.err # NilErr
              ELSE IF DeclaredError(v) # ""
              THEN /\ caller[c].ret.err = <<"plugin action error: ", DeclaredError(v)>>
                   /\ caller[c].ret.result = <<>>
              ELSE /\ caller[c].ret.err = NilErr
                   /\ caller[c].ret.result = JSONStringify(v)

\* C9 witness: calls have returned for a response with an 'Error' field and
\* for one with a plain result.
C9_Witness ==
    \E c, d \in Callers :
        /\ ActionCall(c) /\ HasReturned(c)
        /\ caller[c].pluginID = <<"a">> /\ caller[c].action = "caps"
        /\ caller[c].ret.err = <<"plugin action error: ", "denied">>
        /\ ActionCall(d) /\ Succeeded(d)
        /\ caller[d].pluginID = <<"a">> /\ caller[d].action = "save"
        /\ caller[d].ret.result # <<>>

(***************************************************************************)
(* Properties of a pipeline run.                                           *)
(***************************************************************************)
\* The hooks that ran for the call of c all returned strings.
AllReturnedStrings(c) ==
    \A i \in 1..Len(caller[c].hooks) : caller[c].hooks[i].kind = "string"

\* C10: in a pipeline job whose hooks return strings, the hooks run in
\* ascending order of their plugins' order values, the first on the caller's
\* content, each later one on the string the previous one returned, and the
\* result is the last hook's output; order 2 appending "-B" and order 10
\* appending "-A" turn "X" into "X-B-A".
C10_HooksRunInAscendingOrder ==
    \A c \in Callers :
        (/\ PipelineCall(c) /\ HasReturned(c) /\ ~caller[c].ret.hit
         /\ caller[c].hook = "onArticleRender"
         /\ caller[c].ret.err = NilErr
         /\ AllReturnedStrings(c))
        => LET hs == caller[c].hooks
               n == Len(hs)
           IN /\ \A i, j \in 1..n : i < j => hs[i].order <= hs[j].order
              /\ n > 0 => hs[1].input = caller[c].input
              /\ \A i \in 1..(n - 1) : hs[i + 1].input = hs[i].output
              /\ n > 0 => caller[c].ret.result = hs[n].output
              /\ (Plugins \in loadFromDirectory(ExampleDir) /\ caller[c].input = <<"X">>)
                 => caller[c].ret.result = <<"X", "-B", "-A">>

\* The hook calls of c that threw, and the ids of the loaded plugins that have
\* the hook, in pipeline order.
Threw(call) == call.kind \in {"throw", "throwBad"}
ThrowingCalls(c) == {i \in 1..Len(caller[c].hooks) : Threw(caller[c].hooks[i])}
HasHookAt(i) ==
    \E j \in 1..Len(Plugins) :
        /\ Plugins[j].ID = pluginIDs[i]
        /\ \A k \in (j + 1)..Len(Plugins) : Plugins[k].ID # pluginIDs[i]
        /\ HasHook(Plugins[j], "onArticleRender")
HookIDs == SelectSeq(pluginIDs, LAMBDA id : \E i \in 1..Len(pluginIDs) :
                                              pluginIDs[i] = id /\ HasHookAt(i))

\* C11: in a pipeline run where a hook throws, every plugin's hook is invoked,
\* in order; a hook that returns a string hands it to its successor and a
\* throwing hook hands on the content it was given; the plugin-error list has
\* exactly one entry per throwing hook, naming its plugin and the hook; and no
\* fatal error is returned.
C11_ThrowingHookIsSkipped ==
    \A c \in Callers :
        (/\ PipelineCall(c) /\ HasReturned(c) /\ ~caller[c].ret.hit
         /\ caller[c].hook = "onArticleRender"
         /\ ThrowingCalls(c) # {})
        => LET hs == caller[c].hooks
               n == Len(hs)
               errs == caller[c].ret.errors
           IN /\ caller[c].ret.err = NilErr
              /\ [i \in 1..n |-> hs[i].pid] = HookIDs
              /\ hs[1].input = caller[c].input
              /\ \A i \in 1..(n - 1) :
                    hs[i + 1].input = IF hs[i].kind = "string" THEN hs[i].output
                                      ELSE hs[i].input
              /\ caller[c].ret.result = IF hs[n].kind = "string" THEN hs[n].output
                                        ELSE hs[n].input
              /\ Len(errs) = Cardinality(ThrowingCalls(c))
              /\ \A i \in ThrowingCalls(c) :
                    Cardinality({j \in 1..Len(errs) :
                        errs[j].PluginID = hs[i].pid
                        /\ errs[j].Hook = "onArticleRender"}) = 1

(***************************************************************************)
(* Properties of shutdown and of a pool without workers.                   *)
(***************************************************************************)
\* A job of caller c is on the queue; every worker has left its run loop.
InQueue(c) == \E i \in 1..Len(jobQueue) : jobQueue[i].owner = c
WorkersGone == \A w \in Workers : worker[w].pc \in {"stopping", "closed", "exited"}
AllWorkersFailed == \A w \in Workers : worker[w].failed
Blocked(c) ==
    caller[c].pc \in {"send", "recv"} /\ ~caller[c].ret.returned /\ respChan[c] = <<>>

\* C14: when Close has returned, every worker has left its run loop and ended,
\* its VM is closed, and the store is closed; no worker holds, takes or
\* processes a job after Close has returned.
C14_CloseLeavesNothingRunning ==
    closer.pc = "returned"
    => /\ \A w \in Workers :
            /\ worker[w].pc = "exited"
            /\ ~worker[w].vm.open
            /\ worker[w].job = NoJob
            /\ ~worker[w].late
       /\ ~store.open

C14_Witness ==
    /\ closer.pc = "returned"
    /\ \E w \in Workers : worker[w].pc = "exited" /\ ~worker[w].failed
    /\ jobQueue # <<>>

\* C15 as claimed: after Close has returned the cache holds no entries and no
\* ExecutePipeline call made after Close is answered from the cache.
C15_CloseDrainsCache ==
    closer.pc = "returned"
    => /\ cache = NoCache
       /\ \A c \in Callers : caller[c].afterClose => ~caller[c].ret.hit

\* C15: Close removes no entry from the cache: the entries are the same after
\* m.cache.Stop() as before it, and an ExecutePipeline call made after Close
\* has returned that finds an entry under its key returns that entry's value
\* from the cache.
C15_CloseKeepsCacheEntries ==
    /\ closer.pc # "idle" => closer.after = closer.before
    /\ \A c \in Callers :
          (PipelineCall(c) /\ caller[c].afterClose /\ caller[c].seen # {})
          => /\ HasReturned(c)
             /\ caller[c].ret.hit
             /\ \A e \in caller[c].seen : caller[c].ret.result = e.value

C15_Witness ==
    /\ closer.pc = "returned"
    /\ closer.before # NoCache
    /\ \E c \in Callers : caller[c].afterClose /\ caller[c].ret.hit

\* C16 as claimed: once the stop channel is closed, a job that is on the queue
\* stays on the queue, and its caller stays blocked without a reply.
C16_QueuedJobAbandonedAtStop ==
    [][\A c \in Callers :
          (stopChan /\ InQueue(c)) => (InQueue(c)' /\ Blocked(c)')]_vars

\* C16: once the stop channel is closed and every worker has left its run loop,
\* a job that is on the queue stays on the queue for ever: it is never
\* processed, and its caller stays blocked without a reply.
C16_JobLeftBehindStaysQueued ==
    [][\A c \in Callers :
          (stopChan /\ WorkersGone /\ InQueue(c))
          => (WorkersGone' /\ InQueue(c)' /\ Blocked(c)')]_vars

C16_Witness ==
    /\ stopChan
    /\ WorkersGone
    /\ \E w \in Workers : ~worker[w].failed
    /\ \E c \in Callers : InQueue(c) /\ Blocked(c)

\* C17: when every worker has exited because its VM could not be initialised,
\* every ExecutePipeline call that missed the cache and every
\* ExecutePluginAction call is blocked: it has not returned and no reply
\* waits for it.
C17_NoWorkerNoReply ==
    AllWorkersFailed
    => \A c \in Callers :
          ((PipelineCall(c) /\ ~caller[c].ret.hit) \/ ActionCall(c)) => Blocked(c)

C17_Witness ==
    /\ AllWorkersFailed
    /\ \E c, d \in Callers :
          /\ PipelineCall(c) /\ caller[c].pc = "recv"
          /\ ActionCall(d) /\ caller[d].pc = "recv"

(***************************************************************************)
(* Properties of the worker pool.                                          *)
(***************************************************************************)
\* The replies a worker with a fresh VM gives to the pipeline job of caller c.
OwnReplies(c) ==
    JobResponses(initVM(Plugins, pluginIDs),
                 [NoJob EXCEPT !.kind = "pipeline", !.hook = caller[c].hook,
                               !.input = caller[c].input, !.ctx = caller[c].ctx,
                               !.owner = c])

\* Caller c waits for a worker while some worker is in its run loop.
Waiting(c) ==
    /\ PipelineCall(c)
    /\ caller[c].pc \in {"send", "recv"}
    /\ \E w \in Workers : worker[w].pc \in {"ready", "busy"}

\* What a pipeline call that was not answered from the cache returned is a
\* reply to its own job: the hooks ran on its own input.
OwnResult(c) ==
    (PipelineCall(c) /\ HasReturned(c) /\ ~caller[c].ret.hit)
    => /\ \E r \in OwnReplies(c) :
            /\ caller[c].ret.result = r.result
            /\ caller[c].ret.errors = r.errors
            /\ caller[c].ret.err = r.err
            /\ caller[c].hooks = r.calls
       /\ caller[c].hooks # <<>> => caller[c].hooks[1].input = caller[c].input

\* C12: with concurrent callers rendering different contents and at least one
\* worker in its run loop, every caller that waits for a worker eventually
\* returns, and what a caller returns is the pipeline output for its own input.
C12_EveryCallerGetsItsOwnReply ==
    /\ [](\A c \in Callers : OwnResult(c))
    /\ \A c \in Callers : Waiting(c) ~> HasReturned(c)

C12_Witness ==
    /\ Cardinality({w \in Workers : worker[w].pc \in {"ready", "busy"}}) < NumCallers
    /\ \E c, d \in Callers :
          /\ caller[c].input # caller[d].input
          /\ PipelineCall(c) /\ HasReturned(c) /\ ~caller[c].ret.hit /\ ~caller[c].alone
          /\ PipelineCall(d) /\ HasReturned(d) /\ ~caller[d].ret.hit /\ ~caller[d].alone

(***************************************************************************)
(* Properties of the host API and of the sandbox's responses.              *)
(***************************************************************************)
\* The storage calls made while the hooks of caller c's pipeline job ran, each
\* with the id of the plugin whose hook made it and how that hook ended.
StorageLog(c) ==
    IF ~PipelineCall(c) THEN {}
    ELSE UNION {{[pid |-> caller[c].hooks[i].pid, kind |-> caller[c].hooks[i].kind,
                  call |-> caller[c].hooks[i].ops[j]] :
                 j \in 1..Len(caller[c].hooks[i].ops)} :
                i \in 1..Len(caller[c].hooks)}

\* C13 as claimed: every storage call made while plugin P's hook ran reached
\* the namespace of P and of no other plugin.
C13_StorageStaysInOwnNamespace ==
    \A c \in Callers : \A e \in StorageLog(c) : e.call.ns = e.pid

\* C18: every cache entry was written by a call of 'onArticleRender' with a
\* non-empty slug; an ExecutePluginAction call has found no entry, written no
\* entry and is not answered from the cache; an ExecutePipeline call with
\* another hook name or without a slug has no cache key, has found no entry,
\* written no entry and is not answered from the cache.
C18_OnlyRenderWithSlugIsCached ==
    /\ \A k \in DOMAIN cache :
          cache[k].hook = "onArticleRender" /\ cache[k].slug # <<>>
    /\ \A c \in Callers :
          (\/ ActionCall(c)
           \/ PipelineCall(c) /\ (caller[c].hook # "onArticleRender"
                                  \/ SlugOf(caller[c].ctx) = <<>>))
          => /\ caller[c].cacheKey = NoKey
             /\ caller[c].seen = {}
             /\ caller[c].added = {}
             /\ ~caller[c].ret.hit

C18_Witness ==
    /\ cache # NoCache
    /\ \E c, d \in Callers :
          /\ ActionCall(c) /\ HasReturned(c) /\ caller[c].ret.err = NilErr
          /\ PipelineCall(d) /\ HasReturned(d) /\ caller[d].ret.err = NilErr
          /\ (caller[d].hook # "onArticleRender" \/ caller[d].ctx.isNil)

\* The response to the job of caller c was no string or did not decode.
Malformed(c) == HasReturned(c) /\ caller[c].raw \in {"nonstring", "undecodable"}

\* C19 as claimed: a call whose job got a response that is no string or does
\* not decode has failed with an error, and has cached nothing.
C19_MalformedResponseFails ==
    \A c \in Callers :
        Malformed(c) => caller[c].ret.err # NilErr /\ caller[c].added = {}

\* C19: a pipeline call whose job got a response that is no string or does not
\* decode has failed with an error, without result, and has cached nothing; an
\* action call whose job got a response that is no string has failed with an
\* error; an action call whose job got a string that does not decode has
\* returned that string as its result, without error.
C19_MalformedResponseFailsButActionText ==
    \A c \in Callers :
        Malformed(c)
        => /\ PipelineCall(c)
                => /\ caller[c].ret.err # NilErr
                   /\ caller[c].ret.result = <<>>
                   /\ caller[c].added = {}
           /\ (ActionCall(c) /\ caller[c].raw = "nonstring")
                => caller[c].ret.err # NilErr
           /\ (ActionCall(c) /\ caller[c].raw = "undecodable")
                => /\ caller[c].ret.err = NilErr
                   /\ UnmarshalActionResult(caller[c].ret.result).parseErr
                   /\ caller[c].added = {}

C19_Witness ==
    \E c, d \in Callers :
        /\ PipelineCall(c) /\ Malformed(c) /\ caller[c].cacheKey # NoKey
        /\ ActionCall(d) /\ Malformed(d) /\ caller[d].raw = "undecodable"

\* C20 as claimed: a storage call that met a backend error gave the plugin the
\* empty string (get), false (set, delete) or an empty array (list); the hook
\* that made it returned normally, and the call returned no plugin error for
\* that plugin.
C20_StorageErrorsAreSwallowed ==
    \A c \in Callers : \A e \in StorageLog(c) :
        (HasReturned(c) /\ e.call.failed)
        => /\ e.call.ret =
                CASE e.call.op = "get" -> JSText(<<>>)
                  [] e.call.op = "list" -> JSArray({})
                  [] OTHER -> [t |-> "boolean", text |-> <<"false">>, items |-> {}]
           /\ e.kind = "string"
           /\ \A i \in 1..Len(caller[c].ret.errors) :
                 caller[c].ret.errors[i].PluginID # e.pid


(***************************************************************************)
(* Plugins that contribute nothing to a pipeline run.                      *)
(***************************************************************************)
\* C22: in a pipeline run no hook is invoked for a loaded plugin that does not
\* define onArticleRender, and a hook that returns a non-string hands the
\* content it was given to its successor and has no plugin error recorded:
\* the content is replaced only by a string that a plugin's own hook returned.
C22_OnlyReturnedStringsReplaceContent ==
    \A c \in Callers :
        (/\ PipelineCall(c) /\ HasReturned(c) /\ ~caller[c].ret.hit
         /\ caller[c].hook = "onArticleRender"
         /\ caller[c].ret.err = NilErr)
        => LET hs == caller[c].hooks
               n == Len(hs)
           IN /\ \A i \in 1..n : \A j \in 1..Len(Plugins) :
                    Plugins[j].Order = hs[i].order
                        => Plugins[j].Script.render # "absent"
              /\ \A i \in 1..(n - 1) :
                    hs[i].kind = "nonstring" => hs[i + 1].input = hs[i].input
              /\ \A i \in 1..n :
                    hs[i].kind = "nonstring"
                        => \A k \in 1..Len(caller[c].ret.errors) :
                              caller[c].ret.errors[k].PluginID # hs[i].pid

(***************************************************************************)
(* Loading the plugin directory.                                           *)
(***************************************************************************)
\* C23: the loaded plugin list has exactly one plugin per file of the
\* directory named <number>-<id>.js, with the id being the name between the
\* first "-" and the ".js" suffix and the order the value of the number; the
\* list is in ascending order of the numbers (2 before 10); files without a
\* "-" or with a non-numeric part before the first "-" yield no plugin.
C23_LoadsWellNamedFilesInNumericOrder ==
    LET dash(f) == CHOOSE i \in 1..Len(f.name) :
                        f.name[i] = "-" /\ \A j \in 1..(i - 1) : f.name[j] # "-"
        numeric(s) ==
            LET body == IF s # <<>> /\ s[1] = "+" THEN Tail(s) ELSE s
            IN body # <<>> /\ \A i \in 1..Len(body) : body[i] \in DigitTokens
        wellNamed == {f \in pluginDir :
                        /\ f.name[Len(f.name)] = ".js"
                        /\ \E i \in 1..Len(f.name) : f.name[i] = "-"
                        /\ numeric(SubSeq(f.name, 1, dash(f) - 1))}
        from(f) == {i \in 1..Len(Plugins) : Plugins[i].Script = f.script}
    IN /\ Len(Plugins) = Cardinality(wellNamed)
       /\ \A f \in wellNamed :
             /\ Cardinality(from(f)) = 1
             /\ \A i \in from(f) :
                   /\ Plugins[i].ID = SubSeq(f.name, dash(f) + 1, Len(f.name) - 1)
                   /\ Plugins[i].Order = Atoi(SubSeq(f.name, 1, dash(f) - 1))
       /\ \A i, j \in 1..Len(Plugins) : i < j => Plugins[i].Order <= Plugins[j].Order
       /\ \A i, j \in 1..Len(Plugins) :
             (Plugins[i].Order = 2 /\ Plugins[j].Order = 10) => i < j

\* A manager that loaded a directory with "10-a.js", "2-b.js", a file with a
\* non-numeric prefix and a file without "-", and served a render.
C23_Witness ==
    /\ \E f \in pluginDir : f.name = <<"1", "0", "-", "a", ".js">>
    /\ \E f \in pluginDir : f.name = <<"2", "-", "b", ".js">>
    /\ \E f \in pluginDir : f.name = <<"invalid", "-", "plugin", ".js">>
    /\ \E f \in pluginDir : f.name = <<"noprefix", ".js">>
    /\ \E i \in 1..Len(Plugins) : Plugins[i].ID = <<"a">> /\ Plugins[i].Order = 10
    /\ \E c \in Callers : PipelineCall(c) /\ HasReturned(c) /\ caller[c].ret.err = NilErr

(***************************************************************************)
(* The plugin key/value store.                                             *)
(***************************************************************************)
\* C24: Get(p, k) returns without error the value of the most recent Set(p, k, v)
\* that returned no error and was not followed by Delete(p, k), and the empty
\* string when there is none (key never set, deleted, or no such namespace);
\* every Delete returns without error, also of a missing key or namespace;
\* a Set that returns an error stores nothing.
C24_GetReturnsLatestSet ==
    LET call == probe.last
    IN /\ call.op = "Get" =>
             /\ call.err = NilErr
             /\ call.ret = IF <<call.ns, call.key>> \in DOMAIN probe.set
                           THEN probe.set[<<call.ns, call.key>>].val
                           ELSE <<>>
       /\ call.op = "Delete" => call.err = NilErr
       /\ (call.op = "Set" /\ call.err # NilErr) => call.after = call.before

\* A Get that returns the second value set for a key, a Get that returns ""
\* after a Delete of a key that was set, and a Delete of a missing key.
C24_Witness ==
    /\ probe.last.op = "Get"
    /\ probe.last.ret = <<"2">>
    /\ \E x \in DOMAIN probe.set :
          x[1] # probe.last.ns /\ x[2] = probe.last.key /\ probe.set[x].val = <<"1">>

\* C25: a Set or Delete under plugin id p leaves the result of every Get and
\* every List under any other id q as it was, also for the same key; and
\* after a Set, every key that callers have set without error and not deleted
\* since, whoever set it, is returned by Get with its value.
C25_NamespacesAreIsolated ==
    LET call == probe.last
    IN call.op \in {"Set", "Delete"} =>
          /\ \A q \in StoreNamespaces \ {call.ns} :
                /\ \A k \in StoreKeys :
                      StoreGet(call.after, q, k) = StoreGet(call.before, q, k)
                /\ \A pre \in StorePrefixes :
                      StoreList(call.after, q, pre) = StoreList(call.before, q, pre)
          /\ \A x \in DOMAIN probe.set :
                StoreGet(call.after, x[1], x[2]) = probe.set[x].val

\* A Delete under one id of a key that another id holds too, while two
\* different keys set by different callers are in the store.
C25_Witness ==
    /\ probe.last.op = "Delete"
    /\ HasKey(probe.last.before, probe.last.ns, probe.last.key)
    /\ \E x, y \in DOMAIN probe.set :
          /\ x[1] # probe.last.ns /\ x[2] = probe.last.key
          /\ y[1] = x[1] /\ y[2] # x[2]
          /\ probe.set[x].by # probe.set[y].by

\* C26: List(p, prefix) returns, each once, exactly the keys set in namespace
\* p (and not deleted since) that start with prefix: all of them for the
\* empty prefix, none when no key matches or the namespace does not exist.
C26_ListReturnsKeysWithPrefix ==
    LET call == probe.last
        keys == {x[2] : x \in {y \in DOMAIN probe.set : y[1] = call.ns}}
        starts(k) == /\ Len(k) >= Len(call.key)
                     /\ \A i \in 1..Len(call.key) : k[i] = call.key[i]
    IN call.op = "List" =>
          /\ call.err = NilErr
          /\ {call.ret[i] : i \in 1..Len(call.ret)} = {k \in keys : starts(k)}
          /\ \A i, j \in 1..Len(call.ret) : i # j => call.ret[i] # call.ret[j]

\* A List that returns one of the two keys of a namespace, the other not
\* starting with the prefix, while another namespace holds keys too.
C26_Witness ==
    /\ probe.last.op = "List"
    /\ Len(probe.last.ret) = 1
    /\ Cardinality({x \in DOMAIN probe.set : x[1] = probe.last.ns}) = 2
    /\ \E x \in DOMAIN probe.set : x[1] # probe.last.ns

(***************************************************************************)
(* The lifetime of a cache entry.                                          *)
(***************************************************************************)
\* C21 as claimed: ExecutePipeline never returns an entry more than cacheTtl
\* after the entry was last written (lookups do not prolong its life).
C21_HitWithinTtlOfLastWrite ==
    \A c \in Callers :
        (PipelineCall(c) /\ HasReturned(c) /\ caller[c].ret.hit)
            => \A e \in caller[c].seen : caller[c].at - e.written <= cacheTtl

\* C21 as the code has it: ExecutePipeline never returns an entry more than
\* cacheTtl after the entry was last written or last returned by a lookup;
\* writing the key and every lookup that returns the entry restart the
\* window, so an entry in the cache expires cacheTtl after its last use.
C21_HitWithinTtlOfLastUse ==
    /\ \A c \in Callers :
          (PipelineCall(c) /\ HasReturned(c) /\ caller[c].ret.hit)
              => \A e \in caller[c].seen : caller[c].at - e.used <= cacheTtl
    /\ \A k \in DOMAIN cache :
          /\ cache[k].expires = cache[k].used + cacheTtl
          /\ cache[k].written <= cache[k].used

\* A lookup returns an entry that an earlier lookup had returned some time
\* after the entry was written.
C21_Witness ==
    \E c \in Callers :
        /\ PipelineCall(c) /\ HasReturned(c) /\ caller[c].ret.hit
        /\ \E e \in caller[c].seen : e.written < e.used /\ e.used < caller[c].at

(***************************************************************************)
(* Workers, their sandboxes and the jobs they take.                        *)
(***************************************************************************)
\* C27: a VM is created and used only by its own worker: no worker ever runs
\* code in, or otherwise touches, the VM of another worker, whatever the
\* callers, the jobs and Close do.
C27_SandboxUsedByItsWorkerOnly ==
    \A w \in Workers : worker[w].vm.users \subseteq {w}

\* Both workers are running a job at the same time, each in its own VM, after
\* an earlier call has been served, while Close is waiting for the workers.
C27_Witness ==
    /\ \A w \in Workers : worker[w].pc = "busy" /\ worker[w].vm.users = {w}
    /\ callCount > NumCallers
    /\ stopChan

\* C28: every job a worker has dequeued is held by that worker alone until
\* the worker writes the one reply to the job's reply channel: at any time
\* the job of a waiting caller is in exactly one place (in the queue, with
\* one worker, or answered by one reply in the channel), a caller that is not
\* waiting has no job and no reply anywhere, and a reply appears in a
\* channel only in the step in which a worker holding that caller's job
\* finishes it.
C28_OneReplyPerJob ==
    [][LET copies(c) ==
               Cardinality({i \in 1..Len(jobQueue') : jobQueue'[i].owner = c})
               + Cardinality({w \in Workers : worker'[w].job.owner = c})
               + Len(respChan'[c])
           writer(c, w) ==
               /\ worker[w].pc = "busy" /\ worker[w].job.owner = c
               /\ worker'[w].pc = "ready" /\ worker'[w].job = NoJob
               /\ \A v \in Workers \ {w} : worker[v].job.owner # c
       IN \A c \in Callers :
             /\ copies(c) = IF caller'[c].pc = "recv" THEN 1 ELSE 0
             /\ Len(respChan'[c]) > Len(respChan[c])
                   => \E w \in Workers : writer(c, w)]_vars

\* Two workers hold the jobs of two callers at the same time, after an
\* earlier job was answered and its reply received.
C28_Witness ==
    /\ \A w \in Workers : worker[w].pc = "busy"
    /\ \A c \in Callers : caller[c].pc = "recv" /\ respChan[c] = <<>>
    /\ callCount > NumCallers

\* C29 as claimed: every worker that has started has created exactly one VM,
\* and every worker that has exited has destroyed exactly one.
C29_OneSandboxPerWorker ==
    \A w \in Workers :
        /\ worker[w].pc # "init" => worker[w].created = 1
        /\ worker[w].pc = "exited" => worker[w].destroyed = 1

\* C29 as the code has it: a worker creates at most one VM, at its start (none
\* when quickjs.NewVM fails, one otherwise), never creates another, destroys
\* the VM it created exactly once on its way out (after the stop signal or
\* after a failed initVM) and not before, and no VM is used by another
\* worker.
C29_AtMostOneSandboxPerWorker ==
    \A w \in Workers :
        /\ worker[w].created <= 1
        /\ worker[w].destroyed <= worker[w].created
        /\ worker[w].pc \in {"ready", "busy", "stopping"}
              => worker[w].created = 1 /\ worker[w].destroyed = 0 /\ worker[w].vm.open
        /\ (worker[w].pc # "init" /\ ~worker[w].failed) => worker[w].created = 1
        /\ worker[w].pc \in {"closed", "exited"}
              => worker[w].destroyed = worker[w].created /\ ~worker[w].vm.open
        /\ worker[w].vm.users \subseteq {w}

\* Close has returned; one worker had served a job and destroyed its VM after
\* the stop signal, the other had failed to get a VM and destroyed none.
C29_Witness ==
    /\ closer.pc = "returned"
    /\ \E w \in Workers :
          worker[w].failed /\ worker[w].created = 0 /\ worker[w].destroyed = 0
    /\ \E w \in Workers :
          ~worker[w].failed /\ worker[w].created = 1 /\ worker[w].destroyed = 1
    /\ \E c \in Callers : HasReturned(c) /\ caller[c].jobs > 0

\* C30: a worker that has left its loop holds no job and owes no reply: a job
\* it had dequeued when the stop channel was closed was run and answered
\* before the worker closed its VM and exited.
C30_StopOnlyBetweenJobs ==
    \A w \in Workers :
        worker[w].pc \in {"stopping", "closed", "exited"}
            => worker[w].job = NoJob /\ ~worker[w].owes

\* A worker that held a job when the stop channel was closed has replied to
\* it and exited after that.
C30_Witness ==
    \E w \in Workers :
        worker[w].paid /\ worker[w].pc = "exited" /\ worker[w].destroyed = 1

(***************************************************************************)
(* The bounded job queue.                                                  *)
(***************************************************************************)
\* C31: the job queue never holds more than 10 times the pool size jobs; a
\* caller that wants to submit a job while the queue is full stays where it
\* is (it blocks) as long as the queue is full; and a submitting caller
\* either still waits to submit or has its job appended to the queue as its
\* last element, with every job that was queued still there: no job is
\* dropped or rejected.
C31_QueueIsBoundedAndBlocking ==
    [][/\ Len(jobQueue') <= 10 * NumWorkers
       /\ \A c \in Callers :
             caller[c].pc = "send" =>
                \/ caller'[c].pc = "send" /\ ~caller'[c].ret.returned
                \/ /\ Len(jobQueue) < 10 * NumWorkers
                   /\ caller'[c].pc = "recv"
                   /\ Len(jobQueue') = Len(jobQueue) + 1
                   /\ jobQueue'[Len(jobQueue')].owner = c
                   /\ jobQueue'[Len(jobQueue')].input = caller[c].input
                   /\ \A i \in 1..Len(jobQueue) : jobQueue'[i] = jobQueue[i]]_vars

\* The queue is full and a caller is blocked on it; the other caller's job is
\* the last one in the queue.
C31_Witness ==
    /\ Len(jobQueue) = 10 * NumWorkers
    /\ \E c \in Callers : caller[c].pc = "send"
    /\ \E c \in Callers : caller[c].pc = "recv" /\ jobQueue[Len(jobQueue)].owner = c

(***************************************************************************)
(* A worker whose VM could not be set up.                                  *)
(***************************************************************************)
\* C32: a worker fails only at its start, before it has taken any job; from
\* then on it is on its way out or gone, never in its run loop and never
\* holding a job; and no reply a caller gets is written by a failed worker
\* (the manager exists and serves callers all the same: NewManager has
\* returned before any worker sets up its VM).
C32_FailedWorkerTakesNoJob ==
    [][\A w \in Workers :
          /\ worker'[w].pc = "init" => worker[w].pc = "init" /\ worker'[w].job = NoJob
          /\ (worker'[w].failed /\ ~worker[w].failed) => worker[w].pc = "init"
          /\ worker[w].failed => worker'[w].failed
          /\ worker'[w].failed =>
                /\ worker'[w].pc \in {"stopping", "closed", "exited"}
                /\ worker'[w].job = NoJob
          /\ \A c \in Callers :
                Len(respChan'[c]) > Len(respChan[c]) =>
                   \E v \in Workers : worker[v].pc = "busy" /\ ~worker[v].failed
                                        /\ worker[v].job.owner = c]_vars

\* One worker has failed after it got a VM and has exited, the other worker
\* has failed to get a VM, and a caller waits with its job in the queue.
C32_Witness ==
    /\ \E w \in Workers :
          worker[w].failed /\ worker[w].pc = "exited" /\ worker[w].created = 1
    /\ \E w \in Workers :
          worker[w].failed /\ worker[w].pc = "exited" /\ worker[w].created = 0
    /\ \E c \in Callers : caller[c].pc = "recv" /\ InQueue(c)

(***************************************************************************)
(* The current-plugin marker.                                              *)
(***************************************************************************)
\* C33 as claimed: every Host.storage call made by code of plugin P, from
\* its onArticleRender in a pipeline run or from its top-level script while
\* a sandbox was initialized, reached the store with the namespace P.
C33_HostStorageIsScopedToRunningPlugin ==
    /\ \A c \in Callers : \A e \in StorageLog(c) :
           e.call.host => e.call.ns = e.pid
    /\ \A w \in Workers : \A i \in 1..Len(worker[w].vm.boot) :
           \A j \in 1..Len(worker[w].vm.boot[i].ops) :
              worker[w].vm.boot[i].ops[j].host
              => worker[w].vm.boot[i].ops[j].ns = worker[w].vm.boot[i].pid


(***************************************************************************)
(* Invalidation and renders in flight.                                     *)
(***************************************************************************)
\* C34 as claimed: once a successful ExecutePluginAction with slug S has
\* returned, the cache holds no entry for slug S that was computed by a
\* pipeline job executed before the job of that action, also when a render
\* of S overlaps the action.
C34_InvalidationOutlastsRendersInFlight ==
    \A c \in Callers :
        (ActionCall(c) /\ Succeeded(c) /\ SlugOf(caller[c].ctx) # <<>>)
        => \A k \in DOMAIN cache :
              ~(cache[k].slug = SlugOf(caller[c].ctx) /\ c \in cache[k].before)


(***************************************************************************)
(* A cache hit and a pipeline run.                                         *)
(***************************************************************************)
\* C35 as claimed: with plugins that are deterministic functions of the
\* content, the context and their stored data, the content ExecutePipeline
\* returns from the cache is the content that running the pipeline at that
\* moment, on the plugin storage as it is then, would return.
C35_HitEqualsFreshRun ==
    \A c \in Callers :
        (PipelineCall(c) /\ HasReturned(c) /\ caller[c].ret.hit)
        => caller[c].fresh = {caller[c].ret.result}


(***************************************************************************)
(* Overlapping misses of one key.                                          *)
(***************************************************************************)
\* C36 as claimed: two ExecutePipeline calls with the same cache key that
\* overlap in time and both miss the cache return the same content, and the
\* pipeline is run for one of them at most.
C36_OverlappingMissesRunOnce ==
    \A c, d \in Callers :
        (/\ c # d
         /\ PipelineCall(c) /\ HasReturned(c) /\ ~caller[c].ret.hit /\ ~caller[c].alone
         /\ PipelineCall(d) /\ HasReturned(d) /\ ~caller[d].ret.hit /\ ~caller[d].alone
         /\ caller[c].cacheKey # NoKey
         /\ caller[c].cacheKey = caller[d].cacheKey)
        => /\ caller[c].ret.result = caller[d].ret.result
           /\ caller[c].jobs + caller[d].jobs <= 1


(***************************************************************************)
(* Shutdown under load.                                                    *)
(***************************************************************************)
\* C37: once Close has closed the stop channel, every worker eventually
\* exits and Close returns, also while jobs are in the queue and callers go
\* on submitting jobs (every plugin invocation terminates).
C37_CloseReturnsUnderLoad ==
    (closer.pc = "waiting")
        ~> (closer.pc = "returned" /\ \A w \in Workers : worker[w].pc = "exited")

\* C37 witness: Close has returned and every worker has exited after a
\* worker took a job that was sent after the stop channel was closed, and
\* a job is still in the queue with its caller waiting.
C37_Witness ==
    /\ closer.pc = "returned"
    /\ \A w \in Workers : worker[w].pc = "exited"
    /\ jobQueue # <<>>
    /\ \E c \in Callers : caller[c].pc = "recv" /\ InQueue(c)
    /\ \E w \in Workers : worker[w].paid


(***************************************************************************)
(* Plugin files that yield the same id.                                    *)
(***************************************************************************)
\* C38 as claimed: in every pipeline run of 'onArticleRender' that returns
\* without an error, the onArticleRender of each loaded plugin that defines
\* one was invoked exactly once, also when two files yield the same id.
C38_EveryHookRunsOnce ==
    \A c \in Callers :
        (/\ PipelineCall(c) /\ HasReturned(c) /\ ~caller[c].ret.hit
         /\ caller[c].hook = RenderHook /\ caller[c].ret.err = NilErr)
        => \A i \in 1..Len(Plugins) :
              Plugins[i].Script.render # "absent"
              => Cardinality({n \in 1..Len(caller[c].hooks) :
                                /\ caller[c].hooks[n].order = Plugins[i].Order
                                /\ caller[c].hooks[n].script = Plugins[i].Script}) = 1


(***************************************************************************)
(* Jobs and the worker that runs them.                                     *)
(***************************************************************************)
\* C39 as claimed: a job gives the same result on any two workers, whatever
\* jobs they have processed before: for every render job, what two workers
\* in their loops can reply on the plugin storage as it is (error, content
\* and plugin errors) is the same.
C39_ResultIndependentOfWorker ==
    \A v, w \in Workers :
        (worker[v].pc = "ready" /\ worker[w].pc = "ready")
        => \A in \in HostInputs :
              LET job == [NoJob EXCEPT !.kind = "pipeline", !.hook = in[1],
                                       !.input = in[2], !.ctx = in[3]]
                  Replies(u) ==
                      {[err |-> o.resp.err, result |-> o.resp.result,
                        errors |-> o.resp.errors] :
                       o \in JobOutcomes(worker[u].vm, store, job)}
              IN Replies(v) = Replies(w)


(***************************************************************************)
(* Close called twice.                                                     *)
(***************************************************************************)
\* C40 as claimed: a call of Close after Close has returned completes
\* without a fault: it neither panics nor stays blocked.
C40_SecondCloseCompletes ==
    closer.again \notin {"panic", "blocked"}

====
